---- MODULE Spec2Model ----
(***************************************************************************)
(* A model of the two engines of ImageProcessingAndBeamforming and of the  *)
(* request handlers that drive them:                                       *)
(*   - core/imagean/imagean.py  ImageViewer, driven by views.py through    *)
(*     the module-level instance `viewer` (specification ViewerSpec);      *)
(*   - core/beamforman/beamforman.py  BeamformingSimulator / PhasedArray   *)
(*     (specifications SimSpec, CollectionSpec, ScenarioSpec).             *)
(*                                                                         *)
(* Numbers.  Pixels are the integers 0..255 that load_image stores as      *)
(* float64.  The images drawn have height and width 1 or 2, for which the  *)
(* discrete Fourier transform is exact over the integers: every twiddle    *)
(* factor exp(-2*pi*i*k/n) with n <= 2 is 1 or -1, so the transform of a   *)
(* real image is real and np.angle of it is 0 or pi.  Phases are therefore *)
(* kept in units of pi.  Brightness and contrast are kept in halves        *)
(* (2 stands for 1.0) and an adjusted pixel in quarters.                   *)
(***************************************************************************)
EXTENDS Integers, Sequences, FiniteSets, TLC

VARIABLES
    images,            \* ImageViewer.images            : key -> image
    original_images,   \* ImageViewer.original_images   : key -> image
    last_adjustments,  \* ImageViewer.last_adjustments  : key -> [brightness, contrast]
    fft_cache,         \* ImageViewer.fft_cache         : key -> transform record
    response,          \* the JsonResponse of the last request served by views.py
    arrays,            \* BeamformingSimulator.arrays   : sequence of PhasedArray
    scenarios,         \* BeamformingSimulator.scenarios: scenario id -> template
    current_array_index, \* BeamformingSimulator.current_array_index
    result,            \* what the last simulator operation returned or raised
    call               \* the last direct call of a core method: name, arguments, return

viewerVars == <<images, original_images, last_adjustments, fft_cache>>
simVars == <<arrays, scenarios, current_array_index>>
vars == <<images, original_images, last_adjustments, fft_cache, response,
          arrays, scenarios, current_array_index, result, call>>

----------------------------------------------------------------------------
(* Small helpers over integers and matrices (a matrix is a sequence of rows) *)

Abs(n) == IF n < 0 THEN -n ELSE n
Min(a, b) == IF a < b THEN a ELSE b
Max(a, b) == IF a > b THEN a ELSE b

RECURSIVE SeqSum(_)
SeqSum(s) == IF Len(s) = 0 THEN 0 ELSE s[1] + SeqSum(Tail(s))

RECURSIVE SetSum(_, _)
SetSum(f, S) ==
    IF S = {} THEN 0
    ELSE LET k == CHOOSE k \in S : TRUE IN f[k] + SetSum(f, S \ {k})

\* The sequence <<f[1], ..., f[n]>>, built element by element.
RECURSIVE Tabulate(_, _)
Tabulate(f, n) == IF n = 0 THEN <<>> ELSE Append(Tabulate(f, n - 1), f[n])

\* The dict {k: f[k] for k in S}, built entry by entry.
RECURSIVE DictOver(_, _)
DictOver(f, S) ==
    IF S = {} THEN [k \in {} |-> 0]
    ELSE LET k == CHOOSE k \in S : TRUE
         IN  (k :> f[k]) @@ DictOver(f, S \ {k})

MapKeys(S, F(_)) == DictOver([k \in S |-> F(k)], S)

Matrix(h, w, F(_, _)) ==
    Tabulate([y \in 1..h |-> Tabulate([x \in 1..w |-> F(y, x)], w)], h)

Height(m) == Len(m)
Width(m) == Len(m[1])
Shape(m) == <<Height(m), Width(m)>>

MapMatrix(m, F(_)) == Matrix(Height(m), Width(m), LAMBDA y, x : F(m[y][x]))

\* The sum of all entries of F(y, x) over an h x w grid.
GridSum(h, w, F(_, _)) ==
    SeqSum(Tabulate([y \in 1..h |-> SeqSum(Tabulate([x \in 1..w |-> F(y, x)], w))], h))

\* int(): Python truncates toward zero; num / den with den > 0.
Trunc(num, den) == IF num >= 0 THEN num \div den ELSE -((-num) \div den)

\* floor(sqrt(n)) for n >= 0, searched in 0..hi.
ISqrt(n, hi) == CHOOSE p \in 0..hi : p * p <= n /\ (p + 1) * (p + 1) > n

\* dict.get(key, default) on a function used as a dict.
Get(d, key, default) == IF key \in DOMAIN d THEN d[key] ELSE default

\* {}
EmptyDict == [k \in {} |-> 0]

\* dict[key] = value
Put(d, key, value) == (key :> value) @@ d

----------------------------------------------------------------------------
(* numpy.fft on images of height and width at most 2 *)

\* exp(-2*pi*i*k/n) for n in {1, 2} (k is 0 whenever n = 1): 1 or -1.
Twiddle(k) == IF k % 2 = 0 THEN 1 ELSE -1

\* np.fft.fft2 of a real matrix (real result for these sizes).
fft2(a) ==
    Matrix(Height(a), Width(a), LAMBDA u, v :
        GridSum(Height(a), Width(a), LAMBDA y, x :
            a[y][x] * Twiddle((u - 1) * (y - 1) + (v - 1) * (x - 1))))

\* np.fft.fftshift: result[i] = x[(i - n//2) mod n] on both axes.
fftshift(a) ==
    Matrix(Height(a), Width(a), LAMBDA u, v :
        a[((u - 1 - (Height(a) \div 2)) % Height(a)) + 1]
         [((v - 1 - (Width(a) \div 2)) % Width(a)) + 1])

\* np.fft.ifftshift: result[i] = x[(i + n//2) mod n] on both axes.
ifftshift(a) ==
    Matrix(Height(a), Width(a), LAMBDA u, v :
        a[((u - 1 + (Height(a) \div 2)) % Height(a)) + 1]
         [((v - 1 + (Width(a) \div 2)) % Width(a)) + 1])

\* np.fft.ifft2 without its final division by height*width (the caller
\* divides, so that the arithmetic stays in the integers).
ifft2_times_n(a) ==
    Matrix(Height(a), Width(a), LAMBDA y, x :
        GridSum(Height(a), Width(a), LAMBDA u, v :
            a[u][v] * Twiddle((u - 1) * (y - 1) + (v - 1) * (x - 1))))

\* A variant of np.angle that loses the sign: every phase is 0.
AngleSignLost(v) == 0

\* np.angle of a real number, in units of pi: pi for a negative, else 0.
Angle(v) == IF v < 0 THEN 1 ELSE 0

ZeroMatrix(h, w) == Matrix(h, w, LAMBDA y, x : 0)

\* floor(pi^2 * b2) for 0 <= b2 <= 1500 (pi^2 = 9.8696044...).
PiSqFloor(b2) == (98696 * b2) \div 10000

----------------------------------------------------------------------------
(* ImageViewer (core/imagean/imagean.py) *)

\* _compute_and_cache_fft: the cache after computing image_key's transform.
compute_and_cache_fft(cache, image_key, image_array) ==
    LET fft_result == fftshift(fft2(image_array))
    IN  Put(cache, image_key,
            [fft       |-> fft_result,
             magnitude |-> MapMatrix(fft_result, Abs),
             phase     |-> MapMatrix(fft_result, Angle),
             real      |-> fft_result,
             imaginary |-> ZeroMatrix(Height(fft_result), Width(fft_result))])

\* load_image, given the decoded grayscale array: the viewer afterwards.
load_image(image_key, img_array) ==
    [original_images  |-> Put(original_images, image_key, img_array),
     images           |-> Put(images, image_key, img_array),
     last_adjustments |-> Put(last_adjustments, image_key,
                              [brightness |-> 2, contrast |-> 2]),
     fft_cache        |-> compute_and_cache_fft(fft_cache, image_key, img_array),
     ret              |-> Shape(img_array)]

\* A variant of the resize that runs the horizontal pass only.
resize_lanczos_horizontal(a, new_w, new_h) ==
    IF new_w = Width(a) THEN a
    ELSE Matrix(Height(a), new_w, LAMBDA y, x : (a[y][1] + a[y][2] + 1) \div 2)

\* A variant of the resize that takes its size as (height, width).
resize_lanczos_transposed(a, new_w, new_h) ==
    LET horizontal ==
            IF new_h = Width(a) THEN a
            ELSE Matrix(Height(a), new_h, LAMBDA y, x : (a[y][1] + a[y][2] + 1) \div 2)
    IN  IF new_w = Height(a) THEN horizontal
        ELSE Matrix(new_w, new_h, LAMBDA y, x :
                 (horizontal[1][x] + horizontal[2][x] + 1) \div 2)


\* PIL Image.resize((new_w, new_h), Image.LANCZOS) on an 8-bit image whose
\* sides are at most 2, to sides no larger: along an axis taken from 2 to 1
\* the two Lanczos coefficients are equal, so the pixel is the mean of the
\* two, rounded half up in PIL's fixed point; the horizontal pass runs
\* first, then the vertical one, each rounding to 8 bits; an axis whose
\* size is kept is not resampled.
resize_lanczos(a, new_w, new_h) ==
    LET horizontal ==
            IF new_w = Width(a) THEN a
            ELSE Matrix(Height(a), new_w, LAMBDA y, x : (a[y][1] + a[y][2] + 1) \div 2)
    IN  IF new_h = Height(a) THEN horizontal
        ELSE Matrix(new_h, new_w, LAMBDA y, x :
                 (horizontal[1][x] + horizontal[2][x] + 1) \div 2)

MinOver(S) == CHOOSE m \in S : \A n \in S : m <= n

\* A variant of check_and_resize_to_smallest that resizes the images and
\* leaves the cached transforms as they were.
check_and_resize_keeping_cache ==
    IF DOMAIN images = {}
    THEN [original_images |-> original_images, images |-> images,
          fft_cache |-> fft_cache, ret |-> <<>>]
    ELSE
    LET min_height == MinOver({Height(images[k]) : k \in DOMAIN images})
        min_width  == MinOver({Width(images[k]) : k \in DOMAIN images})
        resized    == {k \in DOMAIN images : Shape(images[k]) # <<min_height, min_width>>}
    IN  [original_images |-> [k \in DOMAIN original_images |->
                                 IF k \in resized
                                 THEN resize_lanczos(original_images[k], min_width, min_height)
                                 ELSE original_images[k]],
         images          |-> [k \in DOMAIN images |->
                                 IF k \in resized
                                 THEN resize_lanczos(images[k], min_width, min_height)
                                 ELSE images[k]],
         fft_cache       |-> fft_cache,
         ret             |-> <<min_height, min_width>>]

\* A variant of check_and_resize_to_smallest that resizes the current copies
\* and leaves the originals at their own sizes.
check_and_resize_current_only ==
    IF DOMAIN images = {}
    THEN [original_images |-> original_images, images |-> images,
          fft_cache |-> fft_cache, ret |-> <<>>]
    ELSE
    LET min_height == MinOver({Height(images[k]) : k \in DOMAIN images})
        min_width  == MinOver({Width(images[k]) : k \in DOMAIN images})
        resized    == {k \in DOMAIN images : Shape(images[k]) # <<min_height, min_width>>}
        new_images == [k \in DOMAIN images |->
                          IF k \in resized
                          THEN resize_lanczos(images[k], min_width, min_height)
                          ELSE images[k]]
        recomputed == [k \in resized |-> compute_and_cache_fft(EmptyDict, k, new_images[k])[k]]
    IN  [original_images |-> original_images,
         images          |-> new_images,
         fft_cache       |-> recomputed @@ fft_cache,
         ret             |-> <<min_height, min_width>>]

\* check_and_resize_to_smallest: the viewer afterwards; ret is <<>> for
\* None and <<min_height, min_width>> otherwise.
check_and_resize_to_smallest ==
    IF DOMAIN images = {}
    THEN [original_images |-> original_images, images |-> images,
          fft_cache |-> fft_cache, ret |-> <<>>]
    ELSE
    LET min_height == MinOver({Height(images[k]) : k \in DOMAIN images})
        min_width  == MinOver({Width(images[k]) : k \in DOMAIN images})
        resized    == {k \in DOMAIN images : Shape(images[k]) # <<min_height, min_width>>}
        new_images == [k \in DOMAIN images |->
                          IF k \in resized
                          THEN resize_lanczos(images[k], min_width, min_height)
                          ELSE images[k]]
        new_originals == [k \in DOMAIN original_images |->
                          IF k \in resized
                          THEN resize_lanczos(original_images[k], min_width, min_height)
                          ELSE original_images[k]]
        \* the cache is recomputed from the resized current copy, self.images[key]
        recomputed == [k \in resized |-> compute_and_cache_fft(EmptyDict, k, new_images[k])[k]]
    IN  [original_images |-> new_originals,
         images          |-> new_images,
         fft_cache       |-> recomputed @@ fft_cache,
         ret             |-> <<min_height, min_width>>]

\* _get_fft: the cached record, or the ValueError it raises.
get_fft(image_key) ==
    IF image_key \notin DOMAIN images
    THEN [kind |-> "ValueError", error |-> "not loaded", value |-> <<>>]
    ELSE IF image_key \notin DOMAIN fft_cache
    THEN [kind |-> "ValueError", error |-> "FFT not computed", value |-> <<>>]
    ELSE [kind |-> "ok", error |-> "", value |-> fft_cache[image_key]]

\* A variant of _create_frequency_mask whose outer mask cuts the rectangle
\* out before it is expanded to the minimum size.
create_frequency_mask_outer_unexpanded(shape, mode, rect_coords) ==
    LET height == shape[1]
        width  == shape[2]
        norm_x == Get(rect_coords, "x", 1)
        norm_y == Get(rect_coords, "y", 1)
        norm_width  == Get(rect_coords, "width", 2)
        norm_height == Get(rect_coords, "height", 2)
        x_start0 == Trunc(norm_x * width, 4)
        y_start0 == Trunc(norm_y * height, 4)
        rect_width  == Trunc(norm_width * width, 4)
        rect_height == Trunc(norm_height * height, 4)
        x_end0 == x_start0 + rect_width
        y_end0 == y_start0 + rect_height
        x_start == Max(0, Min(x_start0, width))
        y_start == Max(0, Min(y_start0, height))
        x_end1 == Max(0, Min(x_end0, width))
        y_end1 == Max(0, Min(y_end0, height))
        x_end == IF x_end1 <= x_start THEN x_start + 1 ELSE x_end1
        y_end == IF y_end1 <= y_start THEN y_start + 1 ELSE y_end1
        unexpanded(y, x) == /\ y_start <= y - 1 /\ y - 1 < y_end1
                            /\ x_start <= x - 1 /\ x - 1 < x_end1
        inside(y, x) == /\ y_start <= y - 1 /\ y - 1 < y_end
                        /\ x_start <= x - 1 /\ x - 1 < x_end
    IN  IF mode = "inner"
        THEN Matrix(height, width, LAMBDA y, x : IF inside(y, x) THEN 1 ELSE 0)
        ELSE Matrix(height, width, LAMBDA y, x : IF unexpanded(y, x) THEN 0 ELSE 1)

\* A variant of _create_frequency_mask that clamps the end of the rectangle
\* to the last index instead of the size.
create_frequency_mask_open_edge(shape, mode, rect_coords) ==
    LET height == shape[1]
        width  == shape[2]
        norm_x == Get(rect_coords, "x", 1)
        norm_y == Get(rect_coords, "y", 1)
        norm_width  == Get(rect_coords, "width", 2)
        norm_height == Get(rect_coords, "height", 2)
        x_start0 == Trunc(norm_x * width, 4)
        y_start0 == Trunc(norm_y * height, 4)
        rect_width  == Trunc(norm_width * width, 4)
        rect_height == Trunc(norm_height * height, 4)
        x_end0 == x_start0 + rect_width
        y_end0 == y_start0 + rect_height
        x_start == Max(0, Min(x_start0, width))
        y_start == Max(0, Min(y_start0, height))
        x_end1 == Max(0, Min(x_end0, width - 1))
        y_end1 == Max(0, Min(y_end0, height - 1))
        x_end == IF x_end1 <= x_start THEN x_start + 1 ELSE x_end1
        y_end == IF y_end1 <= y_start THEN y_start + 1 ELSE y_end1
        \* mask[y_start:y_end, x_start:x_end]: a slice stops at the array's edge
        inside(y, x) == /\ y_start <= y - 1 /\ y - 1 < y_end
                        /\ x_start <= x - 1 /\ x - 1 < x_end
    IN  IF mode = "inner"
        THEN Matrix(height, width, LAMBDA y, x : IF inside(y, x) THEN 1 ELSE 0)
        ELSE Matrix(height, width, LAMBDA y, x : IF inside(y, x) THEN 0 ELSE 1)

\* _create_frequency_mask.  rect_coords gives x, y, width, height in
\* quarters (4 stands for 1.0); a missing entry takes the default of
\* lines 522-525.  A pixel is 1 (keep) or 0 (reject).
create_frequency_mask(shape, mode, rect_coords) ==
    LET height == shape[1]
        width  == shape[2]
        norm_x == Get(rect_coords, "x", 1)
        norm_y == Get(rect_coords, "y", 1)
        norm_width  == Get(rect_coords, "width", 2)
        norm_height == Get(rect_coords, "height", 2)
        x_start0 == Trunc(norm_x * width, 4)
        y_start0 == Trunc(norm_y * height, 4)
        rect_width  == Trunc(norm_width * width, 4)
        rect_height == Trunc(norm_height * height, 4)
        x_end0 == x_start0 + rect_width
        y_end0 == y_start0 + rect_height
        x_start == Max(0, Min(x_start0, width))
        y_start == Max(0, Min(y_start0, height))
        x_end1 == Max(0, Min(x_end0, width))
        y_end1 == Max(0, Min(y_end0, height))
        x_end == IF x_end1 <= x_start THEN x_start + 1 ELSE x_end1
        y_end == IF y_end1 <= y_start THEN y_start + 1 ELSE y_end1
        \* mask[y_start:y_end, x_start:x_end]: a slice stops at the array's edge
        inside(y, x) == /\ y_start <= y - 1 /\ y - 1 < y_end
                        /\ x_start <= x - 1 /\ x - 1 < x_end
    IN  IF mode = "inner"
        THEN Matrix(height, width, LAMBDA y, x : IF inside(y, x) THEN 1 ELSE 0)
        ELSE Matrix(height, width, LAMBDA y, x : IF inside(y, x) THEN 0 ELSE 1)

\* The keys and the lookup of a weight map (a sequence of [key, weight]).
WeightKeys(weights) == {weights[i].key : i \in DOMAIN weights}
WeightGet(weights, key, default) ==
    IF key \in WeightKeys(weights)
    THEN (CHOOSE e \in {weights[i] : i \in DOMAIN weights} : e.key = key).weight
    ELSE default

\* The pixel np.abs(ifft2(...)) leaves after np.clip(0, 255) and
\* astype(uint8), for a spectrum whose inverse transform times n is
\* re + i*pi*impi:  floor(min(255, sqrt(re^2 + pi^2 * impi^2) / n)).
OutputPixel(re, impi, n) ==
    LET m == re * re + PiSqFloor(impi * impi)
    IN  IF impi = 0 THEN Min(255, Abs(re) \div n)
        ELSE IF m >= (256 * n) * (256 * n) THEN 255
        ELSE ISqrt(m, 256 * n) \div n

\* How mix_images ends without an image: `kind` is "None" for the None
\* return, otherwise the exception raised.
MixEnds(kind) ==
    [kind |-> kind, value |-> <<>>, first_key |-> "",
     mixed_comp_1 |-> <<>>, mixed_comp_2 |-> <<>>]

\* mix_images over the stored originals `originals`.  The result has kind
\* "array" with the uint8 image in `value` (and, for inspection, the
\* reference key and the two accumulators, the second in units of pi for
\* magnitude_phase), "None" for the None return, or the exception raised.
mix_images_on(originals, modes, weights_a, weights_b, region_params) ==
    IF Len(weights_a) = 0
    THEN MixEnds("StopIteration")                        \* next(iter({}.keys()))
    ELSE
    LET valid_keys == SelectSeq(weights_a, LAMBDA e : e.key \in DOMAIN originals)
    IN  IF weights_a[1].key \notin DOMAIN originals /\ Len(valid_keys) = 0
        THEN MixEnds("None")
        ELSE
    LET first_key == IF weights_a[1].key \in DOMAIN originals
                     THEN weights_a[1].key ELSE valid_keys[1].key
        ref_img == originals[first_key]
        h == Height(ref_img)
        w == Width(ref_img)
    IN  IF "type" \notin DOMAIN region_params
        THEN MixEnds("KeyError")
        ELSE
    LET frequency_mask == create_frequency_mask(<<h, w>>, region_params["type"], region_params)
        output_mode == Get(modes, first_key, "magnitude_phase")
        all_keys == WeightKeys(weights_a) \cup WeightKeys(weights_b)
        wa(key) == WeightGet(weights_a, key, 0)
        wb(key) == WeightGet(weights_b, key, 0)
        \* the keys the loop does not skip
        used == {key \in all_keys : /\ key \in DOMAIN originals
                                    /\ ~(wa(key) = 0 /\ wb(key) = 0)}
    IN  \* comp_1 *= frequency_mask and mixed_comp_1 += ... need equal shapes
        IF \E key \in used : Shape(originals[key]) # <<h, w>>
        THEN MixEnds("ValueError")
        ELSE
    LET fft_shifted == MapKeys(used, LAMBDA key : fftshift(fft2(originals[key])))
        mode == MapKeys(used, LAMBDA key : Get(modes, key, "magnitude_phase"))
        \* comp_1: magnitude or real part; comp_2: phase (units of pi) or
        \* imaginary part (identically 0 for these sizes); both masked
        comp_1 == MapKeys(used, LAMBDA key :
                     Matrix(h, w, LAMBDA y, x :
                        frequency_mask[y][x] *
                        (IF mode[key] = "magnitude_phase"
                         THEN Abs(fft_shifted[key][y][x])
                         ELSE fft_shifted[key][y][x])))
        comp_2 == MapKeys(used, LAMBDA key :
                     Matrix(h, w, LAMBDA y, x :
                        frequency_mask[y][x] *
                        (IF mode[key] = "magnitude_phase"
                         THEN Angle(fft_shifted[key][y][x])
                         ELSE 0)))
        weight_a == MapKeys(used, LAMBDA key : WeightGet(weights_a, key, 0))
        weight_b == MapKeys(used, LAMBDA key : WeightGet(weights_b, key, 0))
        mixed_comp_1 == Matrix(h, w, LAMBDA y, x :
            SetSum(MapKeys(used, LAMBDA key : comp_1[key][y][x] * weight_a[key]), used))
        mixed_comp_2 == Matrix(h, w, LAMBDA y, x :
            SetSum(MapKeys(used, LAMBDA key : comp_2[key][y][x] * weight_b[key]), used))
        \* combined_fft = re + i*pi*impi
        combined_re == IF output_mode = "magnitude_phase"
                       THEN Matrix(h, w, LAMBDA y, x :
                                mixed_comp_1[y][x] * Twiddle(mixed_comp_2[y][x]))
                       ELSE mixed_comp_1
        combined_impi == IF output_mode = "magnitude_phase"
                         THEN ZeroMatrix(h, w)
                         ELSE mixed_comp_2
        shifted_re   == ifftshift(combined_re)
        shifted_impi == ifftshift(combined_impi)
        back_re   == ifft2_times_n(shifted_re)
        back_impi == ifft2_times_n(shifted_impi)
    IN  [kind  |-> "array",
         value |-> Matrix(h, w, LAMBDA y, x :
                       OutputPixel(back_re[y][x], back_impi[y][x], h * w)),
         first_key |-> first_key,
         mixed_comp_1 |-> mixed_comp_1,
         mixed_comp_2 |-> mixed_comp_2]

\* mix_images on the viewer's own originals.
mix_images(modes, weights_a, weights_b, region_params) ==
    mix_images_on(original_images, modes, weights_a, weights_b, region_params)

\* max(lo, min(hi, v))
Clamp(v, lo, hi) == Max(lo, Min(hi, v))

\* The adjusted pixel, in quarters, for brightness and contrast in halves:
\* np.clip((p * brightness - 127.5) * contrast + 127.5, 0, 255).
AdjustPixel(p, brightness, contrast) ==
    Clamp((p * brightness - 255) * contrast + 510, 0, 1020)

\* A variant of apply_brightness_contrast that adjusts the stored original
\* in place (the adjusted pixels written back, truncated to whole levels).
apply_brightness_contrast_in_place(image_key, brightness_in, contrast_in, reference) ==
    LET brightness == Clamp(brightness_in, 0, 4)
        contrast   == Clamp(contrast_in, 0, 6)
        adjusted   == IF image_key \in DOMAIN original_images
                      THEN MapMatrix(original_images[image_key],
                                     LAMBDA p : AdjustPixel(p, brightness, contrast))
                      ELSE <<>>
    IN  IF image_key \notin DOMAIN images \/ reference # "original"
        THEN [kind |-> "ValueError", error |-> "rejected",
              images |-> images, original_images |-> original_images,
              fft_cache |-> fft_cache, last_adjustments |-> last_adjustments,
              adjusted |-> <<>>, brightness |-> 0, contrast |-> 0]
        ELSE [kind |-> "ok", error |-> "",
              images |-> images,
              original_images |-> Put(original_images, image_key,
                                      MapMatrix(adjusted, LAMBDA q : q \div 4)),
              fft_cache |-> fft_cache,
              last_adjustments |-> Put(last_adjustments, image_key,
                                       [brightness |-> brightness, contrast |-> contrast]),
              adjusted |-> adjusted,
              brightness |-> brightness, contrast |-> contrast]

\* A variant of apply_brightness_contrast that persists the adjusted image
\* as the current copy and recomputes the cached transform from it.
apply_brightness_contrast_persisting(image_key, brightness_in, contrast_in, reference) ==
    LET brightness == Clamp(brightness_in, 0, 4)
        contrast   == Clamp(contrast_in, 0, 6)
        adjusted   == IF image_key \in DOMAIN original_images
                      THEN MapMatrix(original_images[image_key],
                                     LAMBDA p : AdjustPixel(p, brightness, contrast))
                      ELSE <<>>
        stored     == MapMatrix(adjusted, LAMBDA q : q \div 4)
    IN  IF image_key \notin DOMAIN images \/ reference # "original"
        THEN [kind |-> "ValueError", error |-> "rejected",
              images |-> images, original_images |-> original_images,
              fft_cache |-> fft_cache, last_adjustments |-> last_adjustments,
              adjusted |-> <<>>, brightness |-> 0, contrast |-> 0]
        ELSE [kind |-> "ok", error |-> "",
              images |-> Put(images, image_key, stored),
              original_images |-> original_images,
              fft_cache |-> compute_and_cache_fft(fft_cache, image_key, stored),
              last_adjustments |-> Put(last_adjustments, image_key,
                                       [brightness |-> brightness, contrast |-> contrast]),
              adjusted |-> adjusted,
              brightness |-> brightness, contrast |-> contrast]

\* apply_brightness_contrast: the viewer's dictionaries afterwards and
\* what the call returns (kind "ok" with the adjusted image and the
\* clamped values) or raises.
apply_brightness_contrast(image_key, brightness_in, contrast_in, reference) ==
    LET unchanged(kind, error) ==
            [kind |-> kind, error |-> error,
             images |-> images, original_images |-> original_images,
             fft_cache |-> fft_cache, last_adjustments |-> last_adjustments,
             adjusted |-> <<>>, brightness |-> 0, contrast |-> 0]
    IN
    IF image_key \notin DOMAIN images
    THEN unchanged("ValueError", "not loaded")
    ELSE
    LET brightness == Clamp(brightness_in, 0, 4)
        contrast   == Clamp(contrast_in, 0, 6)
    IN  IF reference = "original"
        THEN [kind |-> "ok", error |-> "",
              images |-> images, original_images |-> original_images,
              fft_cache |-> fft_cache,
              last_adjustments |-> Put(last_adjustments, image_key,
                                       [brightness |-> brightness, contrast |-> contrast]),
              adjusted |-> MapMatrix(original_images[image_key],
                                     LAMBDA p : AdjustPixel(p, brightness, contrast)),
              brightness |-> brightness, contrast |-> contrast]
        ELSE unchanged("ValueError", "Invalid reference mode")

----------------------------------------------------------------------------
(* The requests drawn for the image endpoints *)

ImageKeys == {"img1", "img2"}

\* Decoded grayscale uploads, one per shape that a 2x2 bound allows.
UploadFiles ==
    { <<<<10, 200>>, <<60, 35>>>>,
      <<<<90, 201>>>>,
      <<<<255>>, <<0>>>> }

UploadRequests ==
    {[file |-> "decoded", pixels |-> f] : f \in UploadFiles}
    \cup {[file |-> "missing", pixels |-> <<>>], [file |-> "corrupt", pixels |-> <<>>]}

\* brightness and contrast of a request, in halves: 0.5 (in range) and
\* 3.5 (above the contrast range, clamped to 3.0)
BrightnessInputs == {1}
ContrastInputs == {7}
ReferenceInputs == {"original", "current", "sideways"}

\* modes of a request: none given (every image defaults to
\* magnitude_phase), or img1 declared real_imaginary
ModesInputs == {EmptyDict, [k \in {"img1"} |-> "real_imaginary"]}

\* A weight map is an ordered dict: a sequence of [key, weight] entries
\* with distinct keys, in insertion order.
W(k, w) == [key |-> k, weight |-> w]
WeightsAInputs ==
    { <<>>, <<W("img1", 1)>>, <<W("img2", 1)>>,
      <<W("img1", 1), W("img2", 1)>>, <<W("img2", 1), W("img1", 1)>>,
      <<W("img1", 0), W("img2", 1)>> }
WeightsBInputs ==
    { <<>>, <<W("img1", 1)>> }

\* the default region of views.mix_images: the full spectrum
FullSpectrum == [x |-> 0, y |-> 0, width |-> 4, height |-> 4, type |-> "inner"]
\* a region that names only its type takes the defaults of
\* _create_frequency_mask: the centred rectangle of half the size
RegionInputs == {FullSpectrum, [type |-> "outer"]}

NoBody == <<>>
Resp(op, status, error, body, loaded) ==
    [op |-> op, status |-> status, error |-> error, body |-> body, loaded |-> loaded]

----------------------------------------------------------------------------
(* The endpoints of views.py, each serving one request on `viewer` *)

\* POST /api/upload/: image_key "" is a request without one; image_file is
\* the upload: "decoded" with its grayscale pixels, "missing" when the
\* request carries no file, "corrupt" when Image.open cannot decode it.
UploadImage ==
    /\ UNCHANGED <<simVars, result, call>>
    /\ \E image_key \in ImageKeys \cup {""}, image_file \in UploadRequests :
        IF image_file.file = "missing" \/ image_key = ""
        THEN /\ response' = Resp("upload", 400, "Missing image or image_key", NoBody, {})
             /\ UNCHANGED viewerVars
        ELSE IF image_file.file = "corrupt"
        THEN /\ response' = Resp("upload", 500, "cannot identify image file", NoBody, {})
             /\ UNCHANGED viewerVars
        ELSE LET v == load_image(image_key, image_file.pixels)
             IN  /\ original_images' = v.original_images
                 /\ images' = v.images
                 /\ last_adjustments' = v.last_adjustments
                 /\ fft_cache' = v.fft_cache
                 /\ response' = Resp("upload", 200, "", v.images[image_key], DOMAIN v.images)

\* POST /api/resize/
ResizeImages ==
    LET v == check_and_resize_to_smallest
    IN  /\ UNCHANGED <<simVars, result, call>>
        /\ original_images' = v.original_images
        /\ images' = v.images
        /\ fft_cache' = v.fft_cache
        /\ UNCHANGED last_adjustments
        /\ response' = IF v.ret = <<>>
                       THEN Resp("resize", 400, "No images loaded", NoBody, {})
                       ELSE Resp("resize", 200, "", v.ret, {})

\* POST /api/fft/: the body stands for the component that is rendered.
GetFftComponent ==
    \E image_key \in ImageKeys \cup {""},
       component \in {"magnitude", "phase", "real", "imaginary", "power"} :
        /\ UNCHANGED <<viewerVars, simVars, result, call>>
        /\ response' =
             IF image_key = ""
             THEN Resp("fft", 400, "Missing image_key", NoBody, {})
             ELSE IF component \notin {"magnitude", "phase", "real", "imaginary"}
             THEN Resp("fft", 400, "Invalid component type", NoBody, {})
             ELSE LET r == get_fft(image_key)
                  IN  IF r.kind # "ok"
                      THEN Resp("fft", 500, r.error, NoBody, {})
                      ELSE Resp("fft", 200, "", r.value[component], {})

\* A variant of views.mix_images that hands every request to the viewer.
MixResponseUnvalidated(modes, weights_a, weights_b, region_params) ==
    LET output_image == mix_images(modes, weights_a, weights_b, region_params)
    IN  IF output_image.kind = "array"
        THEN Resp("mix", 200, "", output_image.value, {})
        ELSE IF output_image.kind = "None"
        THEN Resp("mix", 500, "AttributeError", NoBody, {})
        ELSE Resp("mix", 500, output_image.kind, NoBody, {})

\* POST /api/mix/: what views.mix_images answers to a request.
MixResponse(modes, weights_a, weights_b, region_params) ==
    IF Len(weights_a) = 0 /\ Len(weights_b) = 0
    THEN Resp("mix", 400, "No weights provided", NoBody, {})
    ELSE LET output_image == mix_images(modes, weights_a, weights_b, region_params)
         IN  IF output_image.kind = "array"
             THEN Resp("mix", 200, "", output_image.value, {})
             ELSE IF output_image.kind = "None"
             \* image_to_base64(None): None has no astype
             THEN Resp("mix", 500, "AttributeError", NoBody, {})
             ELSE Resp("mix", 500, output_image.kind, NoBody, {})

MixImages ==
    \E modes \in ModesInputs, weights_a \in WeightsAInputs, weights_b \in WeightsBInputs,
       region_params \in RegionInputs :
        /\ response' = MixResponse(modes, weights_a, weights_b, region_params)
        /\ UNCHANGED <<viewerVars, simVars, result, call>>

\* POST /api/apply-adjustments/
ApplyAdjustments ==
    /\ UNCHANGED <<simVars, result, call>>
    /\ \E image_key \in ImageKeys \cup {""}, brightness \in BrightnessInputs,
       contrast \in ContrastInputs, reference \in ReferenceInputs :
        IF image_key = ""
        THEN /\ response' = Resp("adjust", 400, "Missing image_key", NoBody, {})
             /\ UNCHANGED viewerVars
        ELSE IF reference \notin {"original", "current"}
        THEN /\ response' = Resp("adjust", 400, "Invalid reference mode", NoBody, {})
             /\ UNCHANGED viewerVars
        ELSE LET v == apply_brightness_contrast(image_key, brightness, contrast, reference)
             IN  /\ images' = v.images
                 /\ original_images' = v.original_images
                 /\ fft_cache' = v.fft_cache
                 /\ last_adjustments' = v.last_adjustments
                 /\ response' = IF v.kind = "ok"
                                THEN Resp("adjust", 200, "", v.adjusted, {})
                                ELSE Resp("adjust", 500, v.error, NoBody, {})

\* POST /api/clear/: views.clear_images calls viewer.clear_images(), a
\* method ImageViewer does not define; the AttributeError is caught and
\* answered with status 500.
ClearImages ==
    /\ response' = Resp("clear", 500, "AttributeError", NoBody, {})
    /\ UNCHANGED <<viewerVars, simVars, result, call>>

\* GET /api/status/
GetStatus ==
    /\ response' = Resp("status", 200, "", NoBody, DOMAIN images)
    /\ UNCHANGED <<viewerVars, simVars, result, call>>

----------------------------------------------------------------------------
(* PhasedArray and BeamformingSimulator (core/beamforman/beamforman.py)     *)
(*                                                                         *)
(* Numbers.  element_spacing is kept in twentieths of a wavelength (10     *)
(* stands for 0.5), curvature in tenths, frequency in MHz, focus_distance  *)
(* in twentieths of a metre (100 stands for 5.0), angles, phase_slope and  *)
(* beam_width in degrees, positions in 1/320 m, an element's phase in      *)
(* eighths of a degree (1440 stands for 180), its amplitude in halves (2   *)
(* stands for 1.0).  Before the conversion to metres an element's place is *)
(* kept in thousandths of a wavelength, an angle of the placement in       *)
(* milliradians, and sin and cos in thousandths, by their power series.    *)
(* With rotation 0 and a frequency that divides 2400 the positions of the  *)
(* linear and the rectangular geometry are exact in these units.           *)

\* What a call returns (ok) or the exception it raises.
Ok(v) == [ok |-> TRUE, error |-> "", value |-> v]
Raise(e) == [ok |-> FALSE, error |-> e, value |-> <<>>]
\* A None return.
None == [ok |-> TRUE, error |-> "None", value |-> <<>>]

\* class ArrayGeometry(Enum), class PhaseProfile(Enum): value -> member
ArrayGeometry ==
    [linear |-> "LINEAR", curved |-> "CURVED",
     circular |-> "CIRCULAR", rectangular |-> "RECTANGULAR"]
PhaseProfile ==
    [linear |-> "LINEAR", quadratic |-> "QUADRATIC",
     custom |-> "CUSTOM", random |-> "RANDOM"]

\* Enum(value): the member with that value, or ValueError
EnumCall(enum, value) ==
    IF value \in DOMAIN enum THEN Ok(enum[value]) ELSE Raise("ValueError")

\* member.value
EnumValue(enum, member) == CHOOSE v \in DOMAIN enum : enum[v] = member

\* ArrayElement(index=index)
ArrayElement(index) ==
    [index |-> index, position_x |-> 0, position_y |-> 0, phase |-> 0,
     amplitude |-> 2, delay |-> 0, is_active |-> TRUE]

ArrayElement_to_dict(element) ==
    [index     |-> element.index,
     position  |-> <<element.position_x, element.position_y>>,
     phase     |-> element.phase,
     amplitude |-> element.amplitude,
     delay     |-> element.delay,
     is_active |-> element.is_active]

ArrayElement_from_dict(data) ==
    IF ~({"index", "position", "phase", "amplitude", "delay"} \subseteq DOMAIN data)
    THEN Raise("KeyError")
    ELSE Ok([index      |-> data.index,
             position_x |-> data.position[1],
             position_y |-> data.position[2],
             phase      |-> data.phase,
             amplitude  |-> data.amplitude,
             delay      |-> data.delay,
             is_active  |-> Get(data, "is_active", TRUE)])

\* The defaults of the PhasedArray dataclass.
PhasedArrayDefaults ==
    [name |-> "Array 1", id |-> 0, geometry |-> "LINEAR", num_elements |-> 8,
     element_spacing |-> 10, curvature |-> 10, frequency |-> 2400,
     position_x |-> 0, position_y |-> 0, rotation |-> 0, steering_angle |-> 0,
     focus_distance |-> 100, beam_width |-> 30, phase_profile |-> "LINEAR",
     phase_slope |-> 0, apply_delays |-> FALSE, elements |-> <<>>]

\* math.pi and 2 * math.pi in milliradians.
Pi == 3142
TwoPi == 6283

\* An angle in milliradians brought into [-pi, pi], as sin and cos see it.
WrapAngle(x) ==
    LET r == x % TwoPi
    IN  IF r > Pi THEN r - TwoPi ELSE r

\* The sum of `left` terms of a power series in x (milliradians), each term
\* the one before times -x^2 / ((k + 1) * (k + 2)), in thousandths.
RECURSIVE Series(_, _, _, _)
Series(term, x, k, left) ==
    IF left = 0 THEN 0
    ELSE term + Series(-Trunc(Trunc(term * x, 1000) * x, 1000 * (k + 1) * (k + 2)),
                       x, k + 2, left - 1)

SeriesTerms == 8

\* math.sin and math.cos of an angle in milliradians, in thousandths.
Sin(x) == Series(WrapAngle(x), WrapAngle(x), 1, SeriesTerms)
Cos(x) == Series(1000, WrapAngle(x), 0, SeriesTerms)

\* A variant of the placement that lays the linear array out from its first
\* element instead of about its centre.
element_position_from_first(array, i) ==
    <<i * array.element_spacing * 50, 0>>

\* The place of element i in the array's own frame, before rotation, in
\* thousandths of a wavelength.  (i - (n-1)/2) * spacing wavelengths is
\* (2i - n + 1) * spacing fortieths, that is (2i - n + 1) * spacing * 25
\* thousandths.  The curved angle (i - (n-1)/2) * spacing / curvature is
\* (2i - n + 1) * spacing * 250 / curvature milliradians; the circular
\* radius n * spacing / (2 pi) cancels out of the circular angle, which is
\* (2i - n + 1) * pi / n.
element_position(array, i) ==
    LET n == array.num_elements
        rows == ISqrt(n, n)
        cols == n \div rows
        angle == Trunc((2 * i - n + 1) * array.element_spacing * 250, array.curvature)
        radius == Trunc(n * array.element_spacing * 25000, Pi)
        circle_angle == Trunc((2 * i - n + 1) * Pi, n)
    IN  CASE array.geometry = "LINEAR" ->
               <<(2 * i - n + 1) * array.element_spacing * 25, 0>>
          [] array.geometry = "CURVED" ->
               <<Trunc(array.curvature * Sin(angle), 10),
                 Trunc(array.curvature * (1000 - Cos(angle)), 10)>>
          [] array.geometry = "CIRCULAR" ->
               <<Trunc(radius * Sin(circle_angle), 1000),
                 Trunc(radius * Cos(circle_angle), 1000)>>
          [] array.geometry = "RECTANGULAR" ->
               <<(2 * (i % cols) - cols + 1) * array.element_spacing * 25,
                 (2 * (i \div cols) - rows + 1) * array.element_spacing * 25>>

\* The element at the place <<x, y>> (thousandths of a wavelength) of the
\* array's frame: a thousandth of a wavelength is 300 / frequency / 1000 m,
\* that is 96 / frequency in 1/320 m; then the array position is added.
translate(array, i, x, y) ==
    [ArrayElement(i) EXCEPT
        !.position_x = Trunc(x * 96, array.frequency) + array.position_x,
        !.position_y = Trunc(y * 96, array.frequency) + array.position_y]

\* The rotation of a place, given cos and sin of the rotation angle.
rotate(array, i, place, cos, sin) ==
    translate(array, i,
              Trunc(place[1] * cos - place[2] * sin, 1000),
              Trunc(place[1] * sin + place[2] * cos, 1000))

\* The n elements, given the rotation angle in milliradians.
generate(array, n, angle_rad) ==
    LET cos == Cos(angle_rad)
        sin == Sin(angle_rad)
    IN  Tabulate([k \in 1..n |->
                     rotate(array, k - 1, element_position(array, k - 1), cos, sin)],
                 n)

\* initialize_elements: the array with its elements regenerated, or the
\* ZeroDivisionError of the first element's placement: spacing / curvature
\* with curvature 0 (curved), spacing / radius with radius 0 (circular), or
\* 300 / frequency with frequency 0.
initialize_elements(array) ==
    LET n == array.num_elements
    IN  IF n > 0 /\ \/ array.frequency = 0
                    \/ array.geometry = "CURVED" /\ array.curvature = 0
                    \/ array.geometry = "CIRCULAR" /\ array.element_spacing = 0
        THEN Raise("ZeroDivisionError")
        ELSE Ok([array EXCEPT !.elements =
                    generate(array, Max(n, 0), Trunc(array.rotation * Pi, 180))])

\* Normalize phase to [-180, 180] (eighths of a degree).
RECURSIVE NormalizePhase(_)
NormalizePhase(phase) ==
    IF phase > 1440 THEN NormalizePhase(phase - 2880)
    ELSE IF phase < -1440 THEN NormalizePhase(phase + 2880)
    ELSE phase

\* calculate_phases: the array with its element phases recomputed, or the
\* ZeroDivisionError it raises.  uniform[k] is what np.random.uniform
\* returns for element k under the random profile.
calculate_phases(array, uniform) ==
    LET n == array.num_elements
        profiled(k) ==
            LET element == array.elements[k]
                i == k - 1
            IN  CASE array.phase_profile = "LINEAR" ->
                       (2 * i - n + 1) * array.phase_slope * 4
                  [] array.phase_profile = "QUADRATIC" ->
                       LET dx == element.position_x - array.position_x
                           dy == element.position_y - array.position_y
                           distance == ISqrt(dx * dx + dy * dy, Abs(dx) + Abs(dy))
                       IN  -((180 * distance) \div array.focus_distance)
                  [] array.phase_profile = "RANDOM" ->
                       uniform[((k - 1) % Len(uniform)) + 1]
                  [] OTHER -> element.phase
        steered(k) ==
            IF array.steering_angle # 0
            THEN profiled(k) + (2 * (k - 1) - n + 1) * array.steering_angle * 8
            ELSE profiled(k)
        count == Len(array.elements)
    IN  IF array.frequency = 0
        THEN Raise("ZeroDivisionError")
        ELSE IF count > 0 /\ array.phase_profile = "QUADRATIC" /\ array.focus_distance = 0
        THEN Raise("ZeroDivisionError")
        ELSE Ok([array EXCEPT !.elements =
                    Tabulate([k \in 1..count |->
                                 [array.elements[k] EXCEPT
                                     !.phase = NormalizePhase(steered(k))]],
                             count)])

\* A float of a result: a finite value, nan, or minus infinity.
Finite(v) == [kind |-> "finite", value |-> v]
NaN == [kind |-> "nan", value |-> 0]
NegInf == [kind |-> "-inf", value |-> 0]

\* floor(sqrt(n)) for n >= 0, by bisection between lo and hi.
RECURSIVE Bisect(_, _, _)
Bisect(n, lo, hi) ==
    IF hi - lo <= 1 THEN lo
    ELSE LET mid == (lo + hi) \div 2
         IN  IF mid * mid <= n THEN Bisect(n, mid, hi) ELSE Bisect(n, lo, mid)
Sqrt(n) == Bisect(n, 0, 46341)

\* The sequence <<f[lo], ..., f[hi]>>, built by halves.
RECURSIVE TabulateRange(_, _, _)
TabulateRange(f, lo, hi) ==
    IF lo > hi THEN <<>>
    ELSE IF lo = hi THEN <<f[lo]>>
    ELSE TabulateRange(f, lo, (lo + hi) \div 2)
             \o TabulateRange(f, (lo + hi) \div 2 + 1, hi)

\* The elements that are active: `if not element.is_active: continue`.
ActiveElements(array) ==
    SelectSeq(array.elements, LAMBDA element : element.is_active)

\* One element's term at one angle (degrees), as <<re, im>> in thousandths:
\* k * (x sin + y cos) is 2 pi times the path in wavelengths, and a position
\* unit is frequency / 96000 of a wavelength; the element's phase, in
\* eighths of a degree, is added in milliradians; the amplitude is in halves.
element_term(array, element, sin, cos) ==
    LET path == Trunc((element.position_x * sin + element.position_y * cos)
                          * array.frequency, 96000)
        total_phase == Trunc(path * TwoPi, 1000) + Trunc(element.phase * Pi, 1440)
    IN  <<Trunc(element.amplitude * Cos(total_phase), 2),
          Trunc(element.amplitude * Sin(total_phase), 2)>>

\* pattern[idx] after the loop over the active elements.
RECURSIVE pattern_sum(_, _, _, _)
pattern_sum(array, active, sin, cos) ==
    IF Len(active) = 0 THEN <<0, 0>>
    ELSE LET front == pattern_sum(array, SubSeq(active, 1, Len(active) - 1), sin, cos)
             term == element_term(array, active[Len(active)], sin, cos)
         IN  <<front[1] + term[1], front[2] + term[2]>>

\* np.abs(pattern[idx]) / count: numpy divides by 0 without raising; with
\* no active element no term was added, and 0 / 0 gives nan.
normalized(sum, count) ==
    IF count # 0
    THEN Finite(Sqrt(sum[1] * sum[1] + sum[2] * sum[2]) \div count)
    ELSE NaN

pattern_at(array, active, angle_rad) ==
    normalized(pattern_sum(array, active, Sin(angle_rad), Cos(angle_rad)), Len(active))

\* calculate_beam_pattern(angles): the normalized pattern, in thousandths,
\* or the ZeroDivisionError of 300 / frequency.
calculate_beam_pattern(array, angles) ==
    IF array.frequency = 0 THEN Raise("ZeroDivisionError")
    ELSE Ok(TabulateRange([idx \in 1..Len(angles) |->
                              pattern_at(array, ActiveElements(array),
                                         Trunc(angles[idx] * Pi, 180))],
                          1, Len(angles)))

\* a > b on floats: every comparison with nan is False.
Greater(a, b) ==
    /\ a.kind # "nan" /\ b.kind # "nan"
    /\ a.kind # "-inf"
    /\ b.kind = "-inf" \/ a.value > b.value

\* np.argmax (from 1): the first nan if there is one, else the first
\* greatest entry.
argmax(pattern) ==
    LET nans == {i \in 1..Len(pattern) : pattern[i].kind = "nan"}
        greatest == {i \in 1..Len(pattern) :
                        \A j \in 1..Len(pattern) : ~Greater(pattern[j], pattern[i])}
    IN  IF nans # {} THEN MinOver(nans) ELSE MinOver(greatest)

\* np.max over the entries at the indices S: nan if one of them is nan.
amax(pattern, S) ==
    IF \E i \in S : pattern[i].kind = "nan" THEN NaN
    ELSE pattern[CHOOSE i \in S : \A j \in S : ~Greater(pattern[j], pattern[i])]

\* pattern[i] ** 2, in half millionths.
Power(f) == IF f.kind = "finite" THEN Finite(2 * f.value * f.value) ELSE f

\* np.sum(pattern ** 2) over the entries lo..hi, summed by halves.
RECURSIVE PowerSum(_, _, _)
PowerSum(pattern, lo, hi) ==
    IF lo > hi THEN 0
    ELSE IF lo = hi THEN Power(pattern[lo]).value
    ELSE PowerSum(pattern, lo, (lo + hi) \div 2)
             + PowerSum(pattern, (lo + hi) \div 2 + 1, hi)
total_power(pattern) ==
    IF \E i \in 1..Len(pattern) : pattern[i].kind = "nan" THEN NaN
    ELSE Finite(PowerSum(pattern, 1, Len(pattern)))

\* log2 of an integer n >= 1 in thousandths: the exponent, and the bits of
\* the fraction by repeated squaring of the mantissa (scaled by 4096).
RECURSIVE Exponent(_)
Exponent(n) == IF n < 2 THEN 0 ELSE 1 + Exponent(n \div 2)
RECURSIVE FractionBits(_, _)
FractionBits(x, bit) ==
    IF bit = 0 THEN 0
    ELSE LET square == (x * x) \div 4096
         IN  IF square >= 8192
             THEN bit + FractionBits(square \div 2, bit \div 2)
             ELSE FractionBits(square, bit \div 2)
Log2(n) ==
    LET e == Exponent(n)
    IN  1000 * e + FractionBits(IF e >= 12 THEN n \div (2 ^ (e - 12))
                                ELSE n * (2 ^ (12 - e)), 500)

\* scale * math.log10(num / den) in thousandths, for num, den >= 1
\* (log10(2) = 0.30103).
Log10Times(scale, num, den) == Trunc((Log2(num) - Log2(den)) * 301 * scale, 1000)

\* The two while loops of the -3 dB beamwidth (indices from 1): each stops
\* at the first index, going left or right from the main lobe, that is the
\* end of the pattern or whose power is not above the half power.
walk_left(pattern, main_lobe_idx, half_power) ==
    LET stops == {j \in 1..main_lobe_idx :
                     j = 1 \/ ~Greater(Power(pattern[j]), half_power)}
    IN  CHOOSE j \in stops : \A i \in stops : i <= j
walk_right(pattern, main_lobe_idx, half_power) ==
    LET stops == {j \in main_lobe_idx..Len(pattern) :
                     j = Len(pattern) \/ ~Greater(Power(pattern[j]), half_power)}
    IN  MinOver(stops)

\* main_lobe_power / 2, in half millionths.
HalfPower(f) == IF f.kind = "finite" THEN Finite(f.value * f.value) ELSE f

\* The metrics of a pattern over the angles, given the index of the main
\* lobe.  math.log10(0.0) raises ValueError.
beam_metrics(angles, pattern, main_lobe_idx) ==
    LET main == pattern[main_lobe_idx]
        half_power == HalfPower(main)
        left_idx == walk_left(pattern, main_lobe_idx, half_power)
        right_idx == walk_right(pattern, main_lobe_idx, half_power)
        deleted == Max(1, main_lobe_idx - 10)..Min(Len(pattern), main_lobe_idx + 10)
        max_sidelobe == amax(pattern, (1..Len(pattern)) \ deleted)
        total == total_power(pattern)
    IN  IF Greater(main, Finite(0)) /\ max_sidelobe.kind = "finite"
           /\ max_sidelobe.value = 0
        THEN Raise("ValueError")
        ELSE Ok([main_lobe_angle |-> Finite(angles[main_lobe_idx]),
                 beamwidth |-> Finite(angles[right_idx] - angles[left_idx]),
                 sidelobe_level |->
                     IF Greater(main, Finite(0))
                     THEN IF max_sidelobe.kind = "nan" THEN NaN
                          ELSE Finite(Log10Times(20, max_sidelobe.value, main.value))
                     ELSE NegInf,
                 directivity |->
                     IF Greater(total, Finite(0))
                     THEN Finite(Log10Times(10, Power(main).value * Len(pattern),
                                            total.value))
                     ELSE Finite(0),
                 max_intensity |-> amax(pattern, 1..Len(pattern))])

\* np.linspace(-180, 180, 361)
MetricAngles == TabulateRange([idx \in 1..361 |-> idx - 181], 1, 361)

metrics_of(angles, pattern) ==
    IF ~pattern.ok THEN pattern
    ELSE beam_metrics(angles, pattern.value, argmax(pattern.value))

\* calculate_beam_metrics
calculate_beam_metrics(array) ==
    metrics_of(MetricAngles, calculate_beam_pattern(array, MetricAngles))

\* PhasedArray(**config): the TypeError of an unexpected keyword, else the
\* dataclass with its defaults, then __post_init__.
PhasedArray(config) ==
    IF ~(DOMAIN config \subseteq DOMAIN PhasedArrayDefaults)
    THEN Raise("TypeError")
    ELSE LET array == config @@ PhasedArrayDefaults
         IN  IF array.elements = <<>> THEN initialize_elements(array) ELSE Ok(array)

\* PhasedArray.to_dict
to_dict(array) ==
    [name            |-> array.name,
     id              |-> array.id,
     geometry        |-> EnumValue(ArrayGeometry, array.geometry),
     num_elements    |-> array.num_elements,
     element_spacing |-> array.element_spacing,
     curvature       |-> array.curvature,
     frequency       |-> array.frequency,
     position        |-> <<array.position_x, array.position_y>>,
     rotation        |-> array.rotation,
     steering_angle  |-> array.steering_angle,
     focus_distance  |-> array.focus_distance,
     beam_width      |-> array.beam_width,
     phase_profile   |-> EnumValue(PhaseProfile, array.phase_profile),
     phase_slope     |-> array.phase_slope,
     apply_delays    |-> array.apply_delays,
     elements        |-> Tabulate([k \in 1..Len(array.elements) |->
                                      ArrayElement_to_dict(array.elements[k])],
                                  Len(array.elements))]

\* [ArrayElement.from_dict(d) for d in datas]: the elements, or the first
\* exception.
RECURSIVE elements_from_dicts(_)
elements_from_dicts(datas) ==
    IF Len(datas) = 0 THEN Ok(<<>>)
    ELSE LET front == elements_from_dicts(SubSeq(datas, 1, Len(datas) - 1))
             last  == ArrayElement_from_dict(datas[Len(datas)])
         IN  IF ~front.ok THEN front
             ELSE IF ~last.ok THEN last
             ELSE Ok(Append(front.value, last.value))

\* A variant of from_dict that keeps the elements __post_init__ generated.
from_dict_regenerating(data) ==
    IF ~({"name", "id", "geometry"} \subseteq DOMAIN data)
    THEN Raise("KeyError")
    ELSE
    LET geometry == EnumCall(ArrayGeometry, data.geometry)
    IN  IF ~geometry.ok THEN geometry
        ELSE IF ~({"num_elements", "element_spacing", "frequency", "position",
                   "rotation", "steering_angle", "focus_distance", "beam_width",
                   "phase_profile"} \subseteq DOMAIN data)
        THEN Raise("KeyError")
        ELSE
    LET phase_profile == EnumCall(PhaseProfile, data.phase_profile)
    IN  IF ~phase_profile.ok THEN phase_profile
        ELSE
    LET array == PhasedArray(
                 [name |-> data.name, id |-> data.id, geometry |-> geometry.value,
                  num_elements |-> data.num_elements,
                  element_spacing |-> data.element_spacing,
                  curvature |-> Get(data, "curvature", 10),
                  frequency |-> data.frequency,
                  position_x |-> data.position[1], position_y |-> data.position[2],
                  rotation |-> data.rotation, steering_angle |-> data.steering_angle,
                  focus_distance |-> data.focus_distance,
                  beam_width |-> data.beam_width,
                  phase_profile |-> phase_profile.value,
                  phase_slope |-> Get(data, "phase_slope", 0),
                  apply_delays |-> Get(data, "apply_delays", FALSE)])
    IN  IF ~array.ok THEN array
        ELSE IF "elements" \notin DOMAIN data THEN Raise("KeyError")
        ELSE LET elements == elements_from_dicts(data.elements)
             IN  IF ~elements.ok THEN elements
                 ELSE array

\* PhasedArray.from_dict: the keyword arguments are evaluated in order
\* (a missing key raises KeyError, an unknown enum value ValueError), the
\* dataclass is built, which generates elements, and the elements are then
\* replaced by the saved ones.
from_dict(data) ==
    IF ~({"name", "id", "geometry"} \subseteq DOMAIN data)
    THEN Raise("KeyError")
    ELSE
    LET geometry == EnumCall(ArrayGeometry, data.geometry)
    IN  IF ~geometry.ok THEN geometry
        ELSE IF ~({"num_elements", "element_spacing", "frequency", "position",
                   "rotation", "steering_angle", "focus_distance", "beam_width",
                   "phase_profile"} \subseteq DOMAIN data)
        THEN Raise("KeyError")
        ELSE
    LET phase_profile == EnumCall(PhaseProfile, data.phase_profile)
    IN  IF ~phase_profile.ok THEN phase_profile
        ELSE
    LET array == PhasedArray(
                 [name |-> data.name, id |-> data.id, geometry |-> geometry.value,
                  num_elements |-> data.num_elements,
                  element_spacing |-> data.element_spacing,
                  curvature |-> Get(data, "curvature", 10),
                  frequency |-> data.frequency,
                  position_x |-> data.position[1], position_y |-> data.position[2],
                  rotation |-> data.rotation, steering_angle |-> data.steering_angle,
                  focus_distance |-> data.focus_distance,
                  beam_width |-> data.beam_width,
                  phase_profile |-> phase_profile.value,
                  phase_slope |-> Get(data, "phase_slope", 0),
                  apply_delays |-> Get(data, "apply_delays", FALSE)])
    IN  IF ~array.ok THEN array
        ELSE IF "elements" \notin DOMAIN data THEN Raise("KeyError")
        ELSE LET elements == elements_from_dicts(data.elements)
             IN  IF ~elements.ok THEN elements
                 ELSE Ok([array.value EXCEPT !.elements = elements.value])

\* load_predefined_scenarios
load_predefined_scenarios ==
    [5g |->
        [name |-> "5G Beam Steering",
         description |-> "64-element linear array for 5G beamforming at 3.5 GHz",
         geometry |-> "linear", num_elements |-> 64, element_spacing |-> 10,
         frequency |-> 3500, steering_angle |-> 30, phase_profile |-> "linear",
         beam_width |-> 15],
     ultrasound |->
        [name |-> "Ultrasound Imaging",
         description |-> "128-element curved array for medical ultrasound imaging",
         geometry |-> "curved", num_elements |-> 128, element_spacing |-> 5,
         curvature |-> 3, frequency |-> 5, focus_distance |-> 2,
         phase_profile |-> "quadratic", beam_width |-> 5],
     ablation |->
        [name |-> "Tumor Ablation",
         description |-> "256-element array for high-intensity focused ultrasound",
         geometry |-> "circular", num_elements |-> 256, element_spacing |-> 4,
         frequency |-> 1, focus_distance |-> 1, phase_profile |-> "quadratic",
         beam_width |-> 2]]

\* BeamformingSimulator(): a simulator is [arrays, scenarios, current_array_index].
BeamformingSimulator ==
    [arrays |-> <<>>, scenarios |-> load_predefined_scenarios,
     current_array_index |-> 0]

\* The simulator the state holds.
Simulator ==
    [arrays |-> arrays, scenarios |-> scenarios,
     current_array_index |-> current_array_index]

\* What a simulator method leaves: the simulator afterwards and what the
\* method returned (ret) or raised (error).
Left(sim, ret, error) == [sim |-> sim, ret |-> ret, error |-> error]

\* create_array: config is a dict, EmptyDict standing for None as well
\* (`if config:` takes both to the default branch).
create_array(sim, config) ==
    LET array == IF DOMAIN config # {}
                 THEN PhasedArray(config)
                 ELSE PhasedArray([id |-> Len(sim.arrays)])
    IN  IF ~array.ok THEN Left(sim, "", array.error)
        ELSE Left([sim EXCEPT !.arrays = Append(sim.arrays, array.value),
                              !.current_array_index = Len(sim.arrays)],
                  "array", "")

\* The position of the first array with this id, 0 when there is none.
IndexOfId(sim, array_id) ==
    IF \E i \in 1..Len(sim.arrays) : sim.arrays[i].id = array_id
    THEN MinOver({i \in 1..Len(sim.arrays) : sim.arrays[i].id = array_id})
    ELSE 0

\* list.pop(i), i counted from 1
Pop(s, i) == SubSeq(s, 1, i - 1) \o SubSeq(s, i + 1, Len(s))

\* remove_array without the test of lines 380-381.
remove_array_unclamped(sim, array_id) ==
    LET i == IndexOfId(sim, array_id)
    IN  IF i = 0 THEN Left(sim, "False", "")
        ELSE Left([sim EXCEPT !.arrays = Pop(sim.arrays, i)], "True", "")

remove_array(sim, array_id) ==
    LET i == IndexOfId(sim, array_id)
        remaining == Pop(sim.arrays, i)
    IN  IF i = 0 THEN Left(sim, "False", "")
        ELSE Left([sim EXCEPT
                      !.arrays = remaining,
                      !.current_array_index =
                          IF sim.current_array_index >= Len(remaining)
                          THEN Max(0, Len(remaining) - 1)
                          ELSE sim.current_array_index],
                  "True", "")

\* get_current_array: the array, None for an empty collection, or the
\* IndexError of an index past the end.
get_current_array(sim) ==
    IF Len(sim.arrays) = 0 THEN None
    ELSE IF sim.current_array_index >= Len(sim.arrays) THEN Raise("IndexError")
    ELSE Ok(sim.arrays[sim.current_array_index + 1])

set_current_array(sim, array_id) ==
    LET i == IndexOfId(sim, array_id)
    IN  IF i = 0 THEN Left(sim, "False", "")
        ELSE Left([sim EXCEPT !.current_array_index = i - 1], "True", "")

\* load_scenario
load_scenario(sim, scenario_id) ==
    IF scenario_id \notin DOMAIN sim.scenarios
    THEN Left(sim, "None", "")
    ELSE
    LET template == sim.scenarios[scenario_id]
        geometry == EnumCall(ArrayGeometry, template.geometry)
        phase_profile == EnumCall(PhaseProfile, template.phase_profile)
    IN  IF ~geometry.ok THEN Left(sim, "", geometry.error)
        ELSE IF ~phase_profile.ok THEN Left(sim, "", phase_profile.error)
        ELSE create_array(sim,
                 [id |-> Len(sim.arrays), name |-> template.name,
                  geometry |-> geometry.value, phase_profile |-> phase_profile.value]
                 @@ template)

\* name.lower().replace(' ', '_') over the names drawn
ScenarioIdOf == [n \in {"My Beam"} |-> "my_beam"]

\* save_scenario
save_scenario(sim, name, description) ==
    LET current_array == get_current_array(sim)
    IN  IF ~current_array.ok THEN Left(sim, "", current_array.error)
        ELSE IF current_array = None THEN Left(sim, "{}", "")
        ELSE Left([sim EXCEPT !.scenarios =
                      Put(sim.scenarios, ScenarioIdOf[name],
                          [description |-> description] @@ to_dict(current_array.value))],
                  "scenario", "")

\* A JSON text: well formed or not; when it is, the value it denotes, an
\* object (a dict) or something else.
json_dumps(data) == [well_formed |-> TRUE, kind |-> "object", value |-> data]

\* export_configuration
export_configuration(sim) ==
    json_dumps([arrays |-> Tabulate([k \in 1..Len(sim.arrays) |-> to_dict(sim.arrays[k])],
                                    Len(sim.arrays)),
                current_array_index |-> sim.current_array_index])

\* The loop of import_configuration over the first k entries: the arrays
\* appended before the first exception, and whether there was none.
RECURSIVE arrays_from_dicts(_, _)
arrays_from_dicts(datas, k) ==
    IF k = 0 THEN [arrays |-> <<>>, ok |-> TRUE]
    ELSE LET front == arrays_from_dicts(datas, k - 1)
             array == from_dict(datas[k])
         IN  IF ~front.ok THEN front
             ELSE IF ~array.ok THEN [arrays |-> front.arrays, ok |-> FALSE]
             ELSE [arrays |-> Append(front.arrays, array.value), ok |-> TRUE]

\* import_configuration
import_configuration(sim, json_str) ==
    IF ~json_str.well_formed
    THEN Left(sim, "False", "")                      \* json.loads raises
    ELSE IF json_str.kind # "object"
    THEN Left([sim EXCEPT !.arrays = <<>>], "False", "")   \* data.get raises
    ELSE
    LET data == json_str.value
        datas == Get(data, "arrays", <<>>)
        loaded == arrays_from_dicts(datas, Len(datas))
    IN  IF ~loaded.ok
        THEN Left([sim EXCEPT !.arrays = loaded.arrays], "False", "")
        ELSE Left([sim EXCEPT !.arrays = loaded.arrays,
                              !.current_array_index =
                                  Get(data, "current_array_index", 0)],
                  "True", "")

----------------------------------------------------------------------------
(* BeamformingView (ImageProcessingAndBeamforming/views2.py).  Between two  *)
(* requests the simulator lives in the session as the text                  *)
(* export_configuration wrote; get_simulator rebuilds it.                   *)

\* get_simulator on a session that holds the export of `sim`.
get_simulator(sim) ==
    import_configuration(BeamformingSimulator, export_configuration(sim)).sim

\* The per-element overrides of handle_array_update, applied in order.
\* The indices drawn are non-negative (a negative one would address the
\* elements from the end).
RECURSIVE update_elements(_, _)
update_elements(elements, element_datas) ==
    IF Len(element_datas) = 0 THEN elements
    ELSE
    LET element_data == Head(element_datas)
        idx == element_data.index
        overridden ==
            IF idx >= 0 /\ idx < Len(elements)
            THEN [elements EXCEPT ![idx + 1] =
                     [f \in {"phase", "amplitude", "is_active",
                             "position_x", "position_y"} \cap DOMAIN element_data
                         |-> element_data[f]] @@ @]
            ELSE elements
    IN  update_elements(overridden, Tail(element_datas))

\* The fields of a request that handle_array_update copies to the array,
\* and those that make it regenerate the elements.
update_fields ==
    {"name", "num_elements", "geometry", "element_spacing", "curvature",
     "frequency", "position_x", "position_y", "rotation", "steering_angle",
     "focus_distance", "beam_width", "phase_profile", "phase_slope", "apply_delays"}
reinitialize_fields ==
    {"num_elements", "geometry", "element_spacing", "curvature",
     "position_x", "position_y", "rotation"}

\* The loop over update_fields: the array with every field of the request
\* set, the two enums through their converters, or the ValueError of one.
set_fields(array, data) ==
    LET geometry == IF "geometry" \in DOMAIN data
                    THEN EnumCall(ArrayGeometry, data.geometry) ELSE Ok("")
        phase_profile == IF "phase_profile" \in DOMAIN data
                         THEN EnumCall(PhaseProfile, data.phase_profile) ELSE Ok("")
    IN  IF ~geometry.ok THEN geometry
        ELSE IF ~phase_profile.ok THEN phase_profile
        ELSE Ok([f \in update_fields \cap DOMAIN data |->
                    IF f = "geometry" THEN geometry.value
                    ELSE IF f = "phase_profile" THEN phase_profile.value
                    ELSE data[f]] @@ array)

\* A variant of the regeneration test that looks only at the element count
\* and the geometry kind.
reinitialize_on_count_or_kind(set, data) ==
    IF ~set.ok THEN set
    ELSE IF {"num_elements", "geometry"} \cap DOMAIN data # {}
    THEN initialize_elements(set.value) ELSE set

\* if needs_reinitialize: array.initialize_elements()
reinitialize(set, data) ==
    IF ~set.ok THEN set
    ELSE IF reinitialize_fields \cap DOMAIN data # {}
    THEN initialize_elements(set.value) ELSE set

\* The manual overrides, then array.calculate_phases().
override_and_calculate(initialized, data, uniform) ==
    IF ~initialized.ok THEN initialized
    ELSE IF "elements" \in DOMAIN data
    THEN calculate_phases([initialized.value EXCEPT
                              !.elements = update_elements(@, data.elements)],
                          uniform)
    ELSE calculate_phases(initialized.value, uniform)

\* save_simulator and the answer, or the answer alone when an exception
\* ended the request before it.
save_updated(sim, simulator, i, updated) ==
    IF ~updated.ok THEN Left(sim, "", updated.error)
    ELSE Left([simulator EXCEPT !.arrays[i] = updated.value,
                                !.scenarios = sim.scenarios],
              "success", "")

\* The request served on the simulator get_simulator rebuilt.
update_array(sim, simulator, data, uniform) ==
    LET i == IndexOfId(simulator, Get(data, "array_id", 0))
    IN  IF i = 0 THEN Left(sim, "", "Array not found")
        ELSE save_updated(sim, simulator, i,
                 override_and_calculate(
                     reinitialize(set_fields(simulator.arrays[i], data), data),
                     data, uniform))

\* handle_array_update: the simulator that is saved and the answer, or the
\* answer alone when the request ends before save_simulator.
handle_array_update(sim, data, uniform) ==
    update_array(sim, get_simulator(sim), data, uniform)

\* f"Array {n}" for n = 1, 2, ...
ArrayNames == <<"Array 1", "Array 2", "Array 3", "Array 4", "Array 5">>

\* handle_add_array
handle_add_array(sim) ==
    LET simulator == get_simulator(sim)
        new_array == PhasedArray([id |-> Len(simulator.arrays),
                                  name |-> ArrayNames[Len(simulator.arrays) + 1]])
    IN  Left([simulator EXCEPT !.arrays = Append(simulator.arrays, new_array.value),
                               !.current_array_index = Len(simulator.arrays),
                               !.scenarios = sim.scenarios],
             "success", "")

\* A variant of handle_remove_array that hands every request to the engine.
handle_remove_array_unguarded(sim, array_id) ==
    LET simulator == get_simulator(sim)
        removed == remove_array(simulator, array_id)
    IN  IF removed.ret = "True"
        THEN Left([removed.sim EXCEPT !.scenarios = sim.scenarios], "success", "")
        ELSE Left(sim, "", "Array not found")

\* handle_remove_array
handle_remove_array(sim, array_id) ==
    LET simulator == get_simulator(sim)
        removed == remove_array(simulator, array_id)
    IN  IF Len(simulator.arrays) <= 1
        THEN Left(sim, "", "Cannot remove the last array")
        ELSE IF removed.ret = "True"
        THEN Left([removed.sim EXCEPT !.scenarios = sim.scenarios], "success", "")
        ELSE Left(sim, "", "Array not found")
----------------------------------------------------------------------------
(* The simulator operations and the requests drawn for them *)

\* The most arrays the collection is grown to.
MaxArrays == 2

ArrayIdInputs == {0, 1, 7}
ScenarioIdInputs == {"5g", "ultrasound", "ablation", "my_beam", "no_such_scenario"}
SaveNames == {"My Beam"}

\* Two outcomes of np.random.uniform(-180, 180) per element: 90 degrees for
\* all, or -45 and 45 degrees in turn.
UniformDraws == {<<720>>, <<-360, 360>>}

\* update_array requests: a resize with a phase slope; a custom profile
\* with overrides of element 0 (phase 200 degrees, amplitude 0.5, off); an
\* unknown geometry; frequency 0; an unknown array; a 2 x 2 grid; the
\* random profile.
UpdateRequests ==
    { [array_id |-> 0, num_elements |-> 2, phase_slope |-> 90],
      [array_id |-> 0, phase_profile |-> "custom",
       elements |-> <<[index |-> 0, phase |-> 1600, amplitude |-> 1,
                       is_active |-> FALSE]>>],
      [array_id |-> 0, geometry |-> "hexagonal"],
      [array_id |-> 0, frequency |-> 0],
      [array_id |-> 7, name |-> "Ghost"],
      [array_id |-> 0, geometry |-> "rectangular", num_elements |-> 4],
      [phase_profile |-> "random"] }

\* The dict of a two-element array as a configuration file carries it.
SavedArray(id, name) ==
    to_dict(PhasedArray([name |-> name, id |-> id, num_elements |-> 2]).value)

\* The same without its frequency.
SavedArrayWithoutFrequency ==
    [f \in DOMAIN SavedArray(0, "Imported A") \ {"frequency"} |->
        SavedArray(0, "Imported A")[f]]

\* Configuration texts: malformed JSON; a JSON list; an object without
\* arrays; one array; two arrays; a second array of unknown geometry; an
\* array without frequency; an index past the end.
ImportDocs ==
    { [well_formed |-> FALSE, kind |-> "", value |-> [version |-> 1]],
      [well_formed |-> TRUE, kind |-> "array", value |-> [version |-> 1]],
      json_dumps([version |-> 1]),
      json_dumps([arrays |-> <<SavedArray(0, "Imported A")>>,
                  current_array_index |-> 0]),
      json_dumps([arrays |-> <<SavedArray(0, "Imported A"), SavedArray(1, "Imported B")>>,
                  current_array_index |-> 1]),
      json_dumps([arrays |-> <<SavedArray(0, "Imported A"),
                               [SavedArray(1, "Imported B") EXCEPT !.geometry = "hexagonal"]>>,
                  current_array_index |-> 1]),
      json_dumps([arrays |-> <<SavedArrayWithoutFrequency>>,
                  current_array_index |-> 0]),
      json_dumps([arrays |-> <<SavedArray(0, "Imported A")>>,
                  current_array_index |-> 3]) }

\* The step that leaves the simulator `left.sim` and reports the operation.
Leave(op, left) ==
    /\ arrays' = left.sim.arrays
    /\ scenarios' = left.sim.scenarios
    /\ current_array_index' = left.sim.current_array_index
    /\ result' = [op |-> op, ret |-> left.ret, error |-> left.error]
    /\ UNCHANGED <<viewerVars, response, call>>

CreateArray ==
    /\ Len(arrays) < MaxArrays
    /\ Leave("create_array", create_array(Simulator, EmptyDict))

HandleAddArray ==
    /\ Len(arrays) < MaxArrays
    /\ Leave("handle_add_array", handle_add_array(Simulator))

RemoveArray ==
    \E array_id \in ArrayIdInputs :
        Leave("remove_array", remove_array(Simulator, array_id))

HandleRemoveArray ==
    \E array_id \in ArrayIdInputs :
        Leave("handle_remove_array", handle_remove_array(Simulator, array_id))

SetCurrentArray ==
    \E array_id \in ArrayIdInputs :
        Leave("set_current_array", set_current_array(Simulator, array_id))

LoadScenario ==
    /\ Len(arrays) < MaxArrays
    /\ \E scenario_id \in ScenarioIdInputs :
           Leave("load_scenario", load_scenario(Simulator, scenario_id))

SaveScenario ==
    \E name \in SaveNames :
        Leave("save_scenario", save_scenario(Simulator, name, ""))

HandleArrayUpdate ==
    \E data \in UpdateRequests, uniform \in UniformDraws :
        Leave("handle_array_update", handle_array_update(Simulator, data, uniform))

\* update_array requests that override single elements: a phase of 45
\* degrees under the array's own profile; a position, an amplitude of 0.5
\* and the active flag of element 1; a new spacing with the amplitude of
\* element 0 given again; a phase of 45 degrees with the quadratic profile;
\* element 3 switched off.
OverrideRequests ==
    { [array_id |-> 0, elements |-> <<[index |-> 0, phase |-> 360]>>],
      [array_id |-> 0, elements |-> <<[index |-> 3, is_active |-> FALSE]>>],
      [array_id |-> 0,
       elements |-> <<[index |-> 1, position_x |-> 5, position_y |-> -3,
                       amplitude |-> 1, is_active |-> FALSE]>>],
      [array_id |-> 0, element_spacing |-> 20,
       elements |-> <<[index |-> 0, amplitude |-> 1]>>],
      [array_id |-> 0, phase_profile |-> "quadratic",
       elements |-> <<[index |-> 0, phase |-> 360]>>] }

HandleElementOverride ==
    \E data \in OverrideRequests, uniform \in UniformDraws :
        Leave("handle_array_update", handle_array_update(Simulator, data, uniform))

\* update_array requests that move the array, bend it with a curvature of
\* 2.0, turn it by 90 degrees, or cut it to three elements.
GeometryRequests ==
    { [array_id |-> 0, position_x |-> 32, position_y |-> -16],
      [array_id |-> 0, num_elements |-> 3],
      [array_id |-> 0, geometry |-> "curved", curvature |-> 20],
      [array_id |-> 0, rotation |-> 90] }

HandleGeometryUpdate ==
    \E data \in GeometryRequests, uniform \in UniformDraws :
        Leave("handle_array_update", handle_array_update(Simulator, data, uniform))

\* update_array requests that change the carrier frequency alone (1200 and
\* 4800 MHz), or together with the spacing.
FrequencyRequests ==
    { [array_id |-> 0, frequency |-> 1200],
      [array_id |-> 0, frequency |-> 4800],
      [array_id |-> 0, frequency |-> 1200, element_spacing |-> 20] }

HandleFrequencyUpdate ==
    \E data \in FrequencyRequests, uniform \in UniformDraws :
        Leave("handle_array_update", handle_array_update(Simulator, data, uniform))

ExportConfiguration ==
    /\ result' = [op |-> "export_configuration", ret |-> "json", error |-> ""]
    /\ UNCHANGED <<viewerVars, response, simVars, call>>

ImportConfiguration ==
    \E json_str \in ImportDocs :
        Leave("import_configuration", import_configuration(Simulator, json_str))

----------------------------------------------------------------------------
(* The specifications *)

\* A call of a core method outside any request, and its absence.
Call(op, args) == [op |-> op, args |-> args, returned |-> FALSE, ret |-> <<>>]
Return(c, ret) == [c EXCEPT !.returned = TRUE, !.ret = ret]
NoCall == Call("", <<>>)

\* The largest side of a mask drawn for _create_frequency_mask.
MaxSide == 3

\* shape: every (height, width) with sides 1..MaxSide
MaskShapes == (1..MaxSide) \X (1..MaxSide)

\* rect_coords: x, y, width and height in quarters, from -0.5 to 1.5, and
\* one rectangle that names no coordinate (the defaults apply)
RectQuarters == {-2, 0, 1, 2, 3, 4, 6}
RectInputs ==
    [x : RectQuarters, y : RectQuarters, width : RectQuarters, height : RectQuarters]
    \cup {EmptyDict}

\* viewer._create_frequency_mask(shape, mode, rect_coords) returns
CreateFrequencyMask ==
    /\ call.op = "_create_frequency_mask" /\ ~call.returned
    /\ call' = Return(call, create_frequency_mask(call.args[1], call.args[2],
                                                  call.args[3]))
    /\ UNCHANGED <<viewerVars, response, simVars, result>>

ViewerInit ==
    /\ images = EmptyDict
    /\ original_images = EmptyDict
    /\ last_adjustments = EmptyDict
    /\ fft_cache = EmptyDict
    /\ response = Resp("", 0, "", NoBody, {})

SimInit ==
    /\ arrays = BeamformingSimulator.arrays
    /\ scenarios = BeamformingSimulator.scenarios
    /\ current_array_index = BeamformingSimulator.current_array_index
    /\ result = [op |-> "", ret |-> "", error |-> ""]

Init == ViewerInit /\ SimInit /\ call = NoCall

ViewerNext ==
    \/ UploadImage
    \/ ResizeImages
    \/ GetFftComponent
    \/ MixImages
    \/ ApplyAdjustments
    \/ ClearImages
    \/ GetStatus

ViewerSpec == Init /\ [][ViewerNext]_vars

\* initialize_elements called on an array: the largest element count drawn,
\* two elements left from before with manual overrides, and the arrays: every
\* geometry, 0..MaxElements elements, spacing 0 or 0.5, curvature 0 or 1.0,
\* frequency 0 or 2400, rotation 0 or 90, at the origin or at (0.1, -0.05),
\* with or without previous elements.
MaxElements == 5

StaleElements ==
    << [ArrayElement(0) EXCEPT !.position_x = 5, !.position_y = -3, !.phase = 360,
                               !.amplitude = 1, !.is_active = FALSE],
       [ArrayElement(1) EXCEPT !.amplitude = 1] >>

ArrayInputs ==
    { config @@ PhasedArrayDefaults :
        config \in [geometry : {"LINEAR", "CURVED", "CIRCULAR", "RECTANGULAR"},
                    num_elements : 0..MaxElements,
                    element_spacing : {0, 10},
                    curvature : {0, 10},
                    frequency : {0, 2400},
                    rotation : {0, 90},
                    position_x : {0, 32},
                    position_y : {0, -16},
                    elements : {<<>>, StaleElements}] }

InitializeElements ==
    /\ call.op = "initialize_elements" /\ ~call.returned
    /\ call' = Return(call, initialize_elements(call.args[1]))
    /\ UNCHANGED <<viewerVars, response, simVars, result>>

InitializeInit ==
    /\ ViewerInit /\ SimInit
    /\ call \in { Call("initialize_elements", <<array>>) : array \in ArrayInputs }

InitializeSpec == InitializeInit /\ [][InitializeElements]_vars

\* calculate_phases called on an array as a request leaves it before the
\* call: generated elements, the fields of the phase profile set (slope 0,
\* 90 or 360 degrees per element, steering 0 or 30 degrees, focus 0 or 5 m),
\* with or without a phase of 45 degrees given to element 0.
PhaseArrayInputs ==
    { LET array == initialize_elements(config @@ PhasedArrayDefaults).value
      IN  IF phase # 0 /\ Len(array.elements) > 0
          THEN [array EXCEPT !.elements[1].phase = phase]
          ELSE array :
        config \in [num_elements : {0, 2, 3},
                    phase_profile : {"LINEAR", "QUADRATIC", "RANDOM", "CUSTOM"},
                    phase_slope : {0, 90, 360},
                    steering_angle : {0, 30},
                    focus_distance : {0, 100}],
        phase \in {0, 360} }

CalculatePhases ==
    /\ call.op = "calculate_phases" /\ ~call.returned
    /\ call' = Return(call, calculate_phases(call.args[1], call.args[2]))
    /\ UNCHANGED <<viewerVars, response, simVars, result>>

\* The next request calls calculate_phases on the array the last call left.
CalculatePhasesAgain ==
    /\ call.op = "calculate_phases" /\ call.returned /\ call.ret.ok
    /\ call' = Call("calculate_phases", <<call.ret.value, call.args[2]>>)
    /\ UNCHANGED <<viewerVars, response, simVars, result>>

PhaseInit ==
    /\ ViewerInit /\ SimInit
    /\ call \in { Call("calculate_phases", <<array, uniform>>) :
                    array \in PhaseArrayInputs, uniform \in UniformDraws }

PhaseNext ==
    \/ CalculatePhases
    \/ CalculatePhasesAgain

PhaseSpec == PhaseInit /\ [][PhaseNext]_vars

\* PhasedArray.from_dict called on a saved array: the dict to_dict writes for
\* a default array of 1..3 elements, with the geometry and the phase profile
\* replaced by a string a document may carry.
GeometryStrings == {"linear", "curved", "circular", "rectangular", "hexagonal", "LINEAR"}
ProfileStrings == {"linear", "quadratic", "random", "custom", "parabolic"}

SavedArrayInputs ==
    { [to_dict(PhasedArray([num_elements |-> n]).value)
          EXCEPT !.geometry = geometry, !.phase_profile = phase_profile] :
        n \in 1..3, geometry \in GeometryStrings, phase_profile \in ProfileStrings }

FromDict ==
    /\ call.op = "from_dict" /\ ~call.returned
    /\ call' = Return(call, from_dict(call.args[1]))
    /\ UNCHANGED <<viewerVars, response, simVars, result>>

FromDictInit ==
    /\ ViewerInit /\ SimInit
    /\ call \in { Call("from_dict", <<data>>) : data \in SavedArrayInputs }

FromDictSpec == FromDictInit /\ [][FromDict]_vars

\* The beam pattern and the beam metrics computed for an array: 0..3
\* generated elements at a spacing of 0.5 or 1.0 wavelengths, the linear
\* phases of a slope of 0 or 90 degrees, and any of the elements switched
\* off.
SwitchedOff(array, off) ==
    [array EXCEPT !.elements =
        [k \in 1..Len(array.elements) |->
            [array.elements[k] EXCEPT !.is_active = (k \notin off)]]]

BeamArrayInputs ==
    UNION { LET array == calculate_phases(
                             initialize_elements(config @@ PhasedArrayDefaults).value,
                             <<0>>).value
            IN  { SwitchedOff(array, off) : off \in SUBSET (1..Len(array.elements)) } :
              config \in [num_elements : 0..3,
                          element_spacing : {10, 20},
                          phase_slope : {0, 90}] }

PatternAngles == <<-90, 0, 30, 90>>

CalculateBeamPattern ==
    /\ call.op = "calculate_beam_pattern" /\ ~call.returned
    /\ call' = Return(call, calculate_beam_pattern(call.args[1], call.args[2]))
    /\ UNCHANGED <<viewerVars, response, simVars, result>>

CalculateBeamMetrics ==
    /\ call.op = "calculate_beam_metrics" /\ ~call.returned
    /\ call' = Return(call, calculate_beam_metrics(call.args[1]))
    /\ UNCHANGED <<viewerVars, response, simVars, result>>

BeamInit ==
    /\ ViewerInit /\ SimInit
    /\ call \in { Call("calculate_beam_pattern", <<array, PatternAngles>>) :
                    array \in BeamArrayInputs }
                \cup { Call("calculate_beam_metrics", <<array>>) :
                         array \in BeamArrayInputs }

BeamNext ==
    \/ CalculateBeamPattern
    \/ CalculateBeamMetrics

BeamSpec == BeamInit /\ [][BeamNext]_vars

\* The mask builder called on its own, on an argument list drawn at the start.
MaskInit ==
    /\ ViewerInit /\ SimInit
    /\ call \in { Call("_create_frequency_mask", <<shape, mode, rect_coords>>) :
                    shape \in MaskShapes, mode \in {"inner", "outer"},
                    rect_coords \in RectInputs }

MaskSpec == MaskInit /\ [][CreateFrequencyMask]_vars

SimNext ==
    \/ CreateArray
    \/ HandleAddArray
    \/ RemoveArray
    \/ HandleRemoveArray
    \/ SetCurrentArray
    \/ LoadScenario
    \/ HandleArrayUpdate
    \/ ExportConfiguration
    \/ ImportConfiguration

SimSpec == Init /\ [][SimNext]_vars

\* The simulator without imports: every id in the collection is one the
\* simulator assigned itself, when an array was added or a scenario loaded.
CollectionNext ==
    \/ CreateArray
    \/ HandleAddArray
    \/ RemoveArray
    \/ HandleRemoveArray
    \/ SetCurrentArray
    \/ LoadScenario
    \/ HandleArrayUpdate
    \/ ExportConfiguration

CollectionSpec == Init /\ [][CollectionNext]_vars

\* One session's arrays under update_array requests that override elements
\* and requests that set geometry fields.
ElementNext ==
    \/ CreateArray
    \/ HandleElementOverride
    \/ HandleGeometryUpdate

ElementSpec == Init /\ [][ElementNext]_vars

\* The caller layer on one session: the first get_simulator stores a
\* simulator with one default array (views2.py 401-405), and the requests
\* add, remove and update arrays.
SessionInit ==
    /\ ViewerInit
    /\ arrays = create_array(BeamformingSimulator, EmptyDict).sim.arrays
    /\ scenarios = BeamformingSimulator.scenarios
    /\ current_array_index = 0
    /\ result = [op |-> "", ret |-> "", error |-> ""]
    /\ call = NoCall

SessionNext ==
    \/ HandleAddArray
    \/ HandleRemoveArray
    \/ HandleArrayUpdate

SessionSpec == SessionInit /\ [][SessionNext]_vars

\* The scenario library: templates are saved from the arrays of a
\* simulator and loaded back into it.
ScenarioNext ==
    \/ CreateArray
    \/ HandleArrayUpdate
    \/ SaveScenario
    \/ LoadScenario

ScenarioSpec == Init /\ [][ScenarioNext]_vars

\* The most arrays a simulator holds when the index is first observed.
MaxGrown == 4

\* The simulator after n create_array() calls.
RECURSIVE Grown(_)
Grown(n) ==
    IF n = 0 THEN BeamformingSimulator
    ELSE create_array(Grown(n - 1), EmptyDict).sim

\* The current-array index under the four operations that move it: the
\* simulator starts empty, or holds up to MaxGrown arrays with one of them
\* selected by set_current_array.
IndexInit ==
    /\ ViewerInit
    /\ call = NoCall
    /\ scenarios = BeamformingSimulator.scenarios
    /\ result = [op |-> "", ret |-> "", error |-> ""]
    /\ \E n \in 0..MaxGrown :
       \E sim \in {Grown(n)} \cup {set_current_array(Grown(n), array_id).sim :
                                       array_id \in 0..(n - 1)} :
           /\ arrays = sim.arrays
           /\ current_array_index = sim.current_array_index

IndexNext ==
    \/ CreateArray
    \/ RemoveArray
    \/ SetCurrentArray
    \/ LoadScenario

IndexSpec == IndexInit /\ [][IndexNext]_vars

\* One session's arrays under update_array requests that set geometry
\* fields and the carrier frequency; no request names an element.
PositionNext ==
    \/ CreateArray
    \/ HandleGeometryUpdate
    \/ HandleFrequencyUpdate

PositionSpec == Init /\ [][PositionNext]_vars

----------------------------------------------------------------------------
(* Properties of the image endpoints, checked under ViewerSpec *)

Baseline == [brightness |-> 2, contrast |-> 2]

\* The mix requests against which an adjustment is compared.
MixProbes ==
    { <<modes, weights_a, weights_b, region_params>> :
        modes \in {EmptyDict},
        weights_a \in {<<W("img1", 1)>>, <<W("img2", 1), W("img1", 1)>>},
        weights_b \in WeightsBInputs,
        region_params \in RegionInputs }

\* C1: mixing is adjustment-independent.  In every reachable state, and
\* for every adjustment request (any id, brightness, contrast, reference),
\* mix_images with fixed arguments returns on the viewer left by the
\* adjustment exactly what it returns before it; by induction the same
\* holds across any sequence of adjustments.
C1_MixAdjustmentIndependent ==
    \A q \in MixProbes :
        LET before == mix_images(q[1], q[2], q[3], q[4])
        IN  \A image_key \in ImageKeys, brightness \in BrightnessInputs,
               contrast \in ContrastInputs, reference \in ReferenceInputs :
                mix_images_on(
                    apply_brightness_contrast(image_key, brightness, contrast,
                                              reference).original_images,
                    q[1], q[2], q[3], q[4]) = before

\* An adjustment has been applied to a loaded image and a mix then
\* answered with the image mixed from the originals.
C1_Witness ==
    /\ response.op = "mix" /\ response.status = 200
    /\ \E k \in DOMAIN last_adjustments : last_adjustments[k] # Baseline
    /\ \E q \in MixProbes : /\ mix_images(q[1], q[2], q[3], q[4]).kind = "array"
                            /\ response.body = mix_images(q[1], q[2], q[3], q[4]).value

C7_ClearResets ==
    response.op = "clear" =>
        /\ images = EmptyDict
        /\ original_images = EmptyDict
        /\ fft_cache = EmptyDict

\* C8 as stated: for every loaded image A, mixing with weightsA = {A: 1},
\* weightsB = {}, magnitude_phase and the full-spectrum mask accumulates
\* A's magnitude and A's phase and returns A.
C8_IdentityMixEmptyB ==
    \A A \in DOMAIN original_images :
        \A modes \in {EmptyDict, [k \in {A} |-> "magnitude_phase"]} :
            LET r == mix_images(modes, <<W(A, 1)>>, <<>>, FullSpectrum)
                f == fftshift(fft2(original_images[A]))
            IN  /\ r.kind = "array"
                /\ r.mixed_comp_1 = MapMatrix(f, Abs)
                /\ r.mixed_comp_2 = MapMatrix(f, Angle)
                /\ r.value = original_images[A]

\* C8 amended: for every loaded image A, mixing with weightsA = {A: 1},
\* weightsB = {A: 1}, magnitude_phase and the full-spectrum mask
\* accumulates A's magnitude and A's phase and returns A.
C8_IdentityMixBothWeights ==
    \A A \in DOMAIN original_images :
        \A modes \in {EmptyDict, [k \in {A} |-> "magnitude_phase"]} :
            LET r == mix_images(modes, <<W(A, 1)>>, <<W(A, 1)>>, FullSpectrum)
                f == fftshift(fft2(original_images[A]))
            IN  /\ r.kind = "array"
                /\ r.mixed_comp_1 = MapMatrix(f, Abs)
                /\ r.mixed_comp_2 = MapMatrix(f, Angle)
                /\ r.value = original_images[A]

\* A mix request has answered with the pixels of a loaded image whose
\* transform has a negative entry (a phase of pi).
C8_Witness ==
    /\ response.op = "mix" /\ response.status = 200
    /\ \E A \in DOMAIN original_images :
           /\ response.body = original_images[A]
           /\ \E y \in 1..Height(original_images[A]), x \in 1..Width(original_images[A]) :
                  fft2(original_images[A])[y][x] < 0
           /\ mix_images(EmptyDict, <<W(A, 1)>>, <<W(A, 1)>>, FullSpectrum).value
                  = response.body

\* C9: a mix request with both weight maps empty fails.  The endpoint
\* answers 400 'No weights provided' with no image, the viewer's own
\* mix_images ends in neither an array nor None, and the step that serves
\* the request leaves the viewer as it was.
C9_NoWeightsFails ==
    [][ /\ \A modes \in ModesInputs, region_params \in RegionInputs :
              /\ MixResponse(modes, <<>>, <<>>, region_params)
                     = Resp("mix", 400, "No weights provided", NoBody, {})
              /\ mix_images(modes, <<>>, <<>>, region_params).kind \notin {"array", "None"}
        /\ (response'.op = "mix" /\ response'.error = "No weights provided")
               => UNCHANGED viewerVars ]_vars

\* A mix request without weights has been refused while images are loaded.
C9_Witness ==
    /\ response = Resp("mix", 400, "No weights provided", NoBody, {})
    /\ DOMAIN original_images = ImageKeys

\* The first id of weights_a that is loaded, "" when there is none.
FirstLoaded(weights_a) ==
    LET loaded == SelectSeq(weights_a, LAMBDA e : e.key \in DOMAIN original_images)
    IN  IF Len(loaded) = 0 THEN "" ELSE loaded[1].key

\* C10: whenever a weight map is non-empty and no id of weights_a is
\* loaded (weights_a empty with entries in weights_b included), mix_images
\* returns None without raising; otherwise the reference image is the first
\* loaded id of weights_a and fixes the output dimensions.
C10_NoReferenceGivesNone ==
    \A modes \in ModesInputs, weights_a \in WeightsAInputs,
       weights_b \in WeightsBInputs, region_params \in RegionInputs :
        (Len(weights_a) > 0 \/ Len(weights_b) > 0) =>
            LET r == mix_images(modes, weights_a, weights_b, region_params)
            IN  IF FirstLoaded(weights_a) = ""
                THEN r.kind = "None"
                ELSE r.kind = "array" =>
                        /\ r.first_key = FirstLoaded(weights_a)
                        /\ Shape(r.value) = Shape(original_images[FirstLoaded(weights_a)])

C12_UnifyToSmallest ==
    LET v == check_and_resize_to_smallest
    IN  IF DOMAIN images = {}
        THEN /\ v.ret = <<>>
             /\ v.original_images = original_images
             /\ v.images = images
             /\ v.fft_cache = fft_cache
        ELSE /\ \A k \in DOMAIN images : v.ret[1] <= Height(images[k])
             /\ \E k \in DOMAIN images : v.ret[1] = Height(images[k])
             /\ \A k \in DOMAIN images : v.ret[2] <= Width(images[k])
             /\ \E k \in DOMAIN images : v.ret[2] = Width(images[k])
             /\ DOMAIN v.images = DOMAIN images
             /\ \A k \in DOMAIN images :
                    /\ Shape(v.original_images[k]) = v.ret
                    /\ Shape(v.images[k]) = v.ret
                    /\ \A c \in {"fft", "magnitude", "phase", "real", "imaginary"} :
                           Shape(v.fft_cache[k][c]) = v.ret

\* A resize request has brought two images to 1 x 1, the least height of
\* one and the least width of the other.
C12_Witness ==
    /\ response = Resp("resize", 200, "", <<1, 1>>, {})
    /\ DOMAIN images = ImageKeys
    /\ \A k \in DOMAIN images : Shape(images[k]) = <<1, 1>>
    /\ \A k \in DOMAIN images : Shape(original_images[k]) = <<1, 1>>

\* C13: check_and_resize_to_smallest is idempotent.  A resize request that
\* directly follows a resize request returns the same dimensions and
\* leaves every original, current copy and cached transform as it found
\* them; and in every state an image already at the target size is left
\* unmodified by the call.
C13_UnifyIdempotent ==
    [][ /\ (response.op = "resize" /\ response'.op = "resize")
            => /\ response' = response
               /\ UNCHANGED viewerVars
        /\ LET v == check_and_resize_to_smallest
           IN  \A k \in DOMAIN images :
                   Shape(images[k]) = v.ret =>
                       /\ v.images[k] = images[k]
                       /\ v.original_images[k] = original_images[k]
                       /\ v.fft_cache[k] = fft_cache[k] ]_vars

\* A resize request has left two images of one width, one of them already
\* of that size before (it is still the upload) and one resampled.
C13_Witness ==
    /\ response.op = "resize" /\ response.status = 200
    /\ DOMAIN images = ImageKeys
    /\ \E k, l \in DOMAIN images :
           /\ images[k] \in UploadFiles
           /\ images[l] \notin UploadFiles
           /\ Shape(images[k]) = Shape(images[l])
           /\ response.body = Shape(images[k])

\* C14: region mask complement.  For every shape and every rectangle the
\* inner and the outer mask _create_frequency_mask builds from the same
\* rectangle are exact complements: each pixel is 0 or 1 in both and 1 in
\* exactly one of the two.
C14_InnerOuterComplement ==
    (call.op = "_create_frequency_mask" /\ call.returned) =>
        LET shape == call.args[1]
            other == create_frequency_mask(
                         shape, IF call.args[2] = "inner" THEN "outer" ELSE "inner",
                         call.args[3])
        IN  /\ Shape(call.ret) = shape
            /\ Shape(other) = shape
            /\ \A y \in 1..shape[1], x \in 1..shape[2] :
                   /\ call.ret[y][x] \in {0, 1}
                   /\ other[y][x] \in {0, 1}
                   /\ call.ret[y][x] + other[y][x] = 1

\* An outer mask of 3 x 3 has been returned that keeps some pixels and
\* rejects others, for a rectangle that had to be expanded (zero width).
C14_Witness ==
    /\ call.op = "_create_frequency_mask" /\ call.returned
    /\ call.args[1] = <<3, 3>> /\ call.args[2] = "outer"
    /\ call.args[3] # EmptyDict /\ call.args[3].width = 0
    /\ \E y \in 1..3, x \in 1..3 : call.ret[y][x] = 0
    /\ \E y \in 1..3, x \in 1..3 : call.ret[y][x] = 1

\* C15: minimum mask footprint.  For every shape and every rectangle with
\* x, y, width and height in [0, 1] the inner mask has a pixel equal to 1
\* and the outer mask a pixel equal to 0.
C15_MinimumFootprint ==
    (/\ call.op = "_create_frequency_mask" /\ call.returned
     /\ call.args[3] # EmptyDict
     /\ \A c \in {"x", "y", "width", "height"} : call.args[3][c] \in 0..4) =>
        \E y \in 1..call.args[1][1], x \in 1..call.args[1][2] :
            call.ret[y][x] = (IF call.args[2] = "inner" THEN 1 ELSE 0)

\* A matrix of ones.
Ones(h, w) == Matrix(h, w, LAMBDA y, x : 1)

\* The mix requests with the full-spectrum region.
FullSpectrumProbes ==
    { <<modes, weights_a, weights_b>> :
        modes \in ModesInputs,
        weights_a \in WeightsAInputs \ {<<>>},
        weights_b \in WeightsBInputs }

\* C16: the full-spectrum mask is the identity.  For every shape the mask
\* of x = 0, y = 0, width = 1, height = 1, inner is 1 everywhere, and every
\* mix with this region that returns an image has accumulated, at every
\* pixel, the sum over the mixed images of component times weight with no
\* masking.
C16_FullSpectrumIsIdentity ==
    /\ \A shape \in MaskShapes :
           create_frequency_mask(shape, "inner", FullSpectrum) = Ones(shape[1], shape[2])
    /\ \A q \in FullSpectrumProbes :
           LET r == mix_images(q[1], q[2], q[3], FullSpectrum)
               mixed == {k \in DOMAIN original_images :
                            WeightGet(q[2], k, 0) # 0 \/ WeightGet(q[3], k, 0) # 0}
               f(k) == fftshift(fft2(original_images[k]))
               phased(k) == Get(q[1], k, "magnitude_phase") = "magnitude_phase"
           IN  r.kind = "array" =>
                   \A y \in 1..Height(r.value), x \in 1..Width(r.value) :
                       /\ r.mixed_comp_1[y][x] =
                              SetSum([k \in mixed |->
                                         (IF phased(k) THEN Abs(f(k)[y][x]) ELSE f(k)[y][x])
                                             * WeightGet(q[2], k, 0)], mixed)
                       /\ r.mixed_comp_2[y][x] =
                              SetSum([k \in mixed |->
                                         (IF phased(k) THEN Angle(f(k)[y][x]) ELSE 0)
                                             * WeightGet(q[3], k, 0)], mixed)

\* A mix of two loaded 2 x 2 images over the full spectrum has answered
\* with its image.
C16_Witness ==
    /\ response.op = "mix" /\ response.status = 200
    /\ DOMAIN original_images = ImageKeys
    /\ \A k \in ImageKeys : Shape(original_images[k]) = <<2, 2>>
    /\ \E q \in FullSpectrumProbes :
           /\ Len(q[2]) = 2 /\ q[2][1].weight # 0
           /\ mix_images(q[1], q[2], q[3], FullSpectrum).kind = "array"
           /\ response.body = mix_images(q[1], q[2], q[3], FullSpectrum).value

\* C17: apply_brightness_contrast supports both reference modes.  For a
\* loaded id a call with reference 'current' returns the current copy
\* adjusted by brightness / last brightness and contrast / last contrast
\* (by brightness and contrast themselves where the last value is 0), and
\* only a reference outside {original, current} raises the invalid
\* reference mode error.  With b, c and the baseline in halves the adjusted
\* pixel in quarters, times 2 * bd * cd, is
\* 4 * (2 * p * b - 255 * bd) * c + 1020 * bd * cd, clipped to [0, 255].
C17_BothReferenceModes ==
    \A image_key \in DOMAIN images, brightness \in BrightnessInputs,
       contrast \in ContrastInputs :
        /\ LET v == apply_brightness_contrast(image_key, brightness, contrast, "current")
               b == Clamp(brightness, 0, 4)
               c == Clamp(contrast, 0, 6)
               last == last_adjustments[image_key]
               bd == IF last.brightness = 0 THEN 2 ELSE last.brightness
               cd == IF last.contrast = 0 THEN 2 ELSE last.contrast
           IN  /\ v.kind = "ok"
               /\ Shape(v.adjusted) = Shape(images[image_key])
               /\ \A y \in 1..Height(images[image_key]), x \in 1..Width(images[image_key]) :
                      v.adjusted[y][x] * (2 * bd * cd) =
                          Clamp(4 * (2 * images[image_key][y][x] * b - 255 * bd) * c
                                    + 1020 * bd * cd,
                                0, 1020 * (2 * bd * cd))
        /\ apply_brightness_contrast(image_key, brightness, contrast, "original").kind = "ok"
        /\ \A reference \in ReferenceInputs \ {"original", "current"} :
               apply_brightness_contrast(image_key, brightness, contrast, reference).error
                   = "Invalid reference mode"

\* The mix requests whose weightsA names a loaded image, in the state at hand.
LoadedMixProbes ==
    { <<modes, weights_a, weights_b, region_params>> :
        modes \in ModesInputs,
        weights_a \in {w \in WeightsAInputs : WeightKeys(w) \cap DOMAIN original_images # {}},
        weights_b \in WeightsBInputs,
        region_params \in RegionInputs }

\* Images are loaded, and every such mix returns an array of the size the
\* loaded images share.
MixesAtOneSize ==
    /\ DOMAIN images # {}
    /\ \E size \in {Shape(images[k]) : k \in DOMAIN images} :
           \A probe \in LoadedMixProbes :
               LET output_image == mix_images(probe[1], probe[2], probe[3], probe[4])
               IN  /\ output_image.kind = "array"
                   /\ Shape(output_image.value) = size

UnifiedAt(size) ==
    /\ DOMAIN original_images # {}
    /\ \A k \in DOMAIN original_images : Shape(original_images[k]) = size
    /\ \A k \in DOMAIN images : Shape(images[k]) = size

Unified == \E size \in {Shape(images[k]) : k \in DOMAIN images} : UnifiedAt(size)

(* C25: after a Unify that returned a size, and for as long as no image is
   loaded, every Mix whose weightsA names a loaded image succeeds and returns
   an array of the unified size.  Three parts: a successful Unify leaves every
   image and every original at the size it returned; every step that is not a
   successful Load keeps them at one size; and in every state where they are
   at one size, no mix fails and each returns an array of that size. *)
C25_UnifyBeforeMix ==
    /\ [][ /\ (response'.op = "resize" /\ response'.status = 200) =>
                  UnifiedAt(response.body)'
           /\ (Unified /\ ~(response'.op = "upload" /\ response'.status = 200)) =>
                  Unified'
         ]_vars
    /\ [](Unified => MixesAtOneSize)

\* Two images that were loaded with different shapes have been unified to
\* 1 x 1, and the mix of both returns a 1 x 1 array.
C25_Witness ==
    /\ response.op = "resize" /\ response.status = 200 /\ response.body = <<1, 1>>
    /\ DOMAIN original_images = ImageKeys
    /\ mix_images(EmptyDict, <<W("img1", 1), W("img2", 1)>>, <<>>, FullSpectrum).kind = "array"
    /\ Shape(mix_images(EmptyDict, <<W("img1", 1), W("img2", 1)>>, <<>>,
                        FullSpectrum).value) = <<1, 1>>

----------------------------------------------------------------------------
(* Properties of the simulator *)

\* C3: a failed import never leaves partially-applied state.  In every
\* reachable state and for every configuration text, when
\* import_configuration returns False the simulator holds either the
\* arrays and the current index it held before, or those of the empty
\* simulator, or those of the default simulator (one default array).
C3_FailedImportKeepsOrResets ==
    \A json_str \in ImportDocs :
        LET left == import_configuration(Simulator, json_str)
            default == create_array(BeamformingSimulator, EmptyDict).sim
        IN  left.ret = "False" =>
                \/ /\ left.sim.arrays = arrays
                   /\ left.sim.current_array_index = current_array_index
                \/ /\ left.sim.arrays = BeamformingSimulator.arrays
                   /\ left.sim.current_array_index = BeamformingSimulator.current_array_index
                \/ /\ left.sim.arrays = default.arrays
                   /\ left.sim.current_array_index = default.current_array_index

\* C4: export/import round trip.  In every reachable state, importing the
\* text of export_configuration into a fresh simulator succeeds and yields
\* as many arrays, in the same order, with every array field and every
\* element field equal, and the same current-array index.
C4_ExportImportRoundTrip ==
    LET left == import_configuration(BeamformingSimulator, export_configuration(Simulator))
        imported == left.sim.arrays
    IN  /\ left.ret = "True"
        /\ Len(imported) = Len(arrays)
        /\ \A i \in 1..Len(arrays) :
              /\ \A f \in DOMAIN PhasedArrayDefaults \ {"elements"} :
                     imported[i][f] = arrays[i][f]
              /\ Len(imported[i].elements) = Len(arrays[i].elements)
              /\ \A k \in 1..Len(arrays[i].elements) :
                     \A g \in {"index", "position_x", "position_y", "phase",
                               "amplitude", "delay", "is_active"} :
                         imported[i].elements[k][g] = arrays[i].elements[k][g]
        /\ left.sim.current_array_index = current_array_index

\* Two arrays, the first made current by set_current_array, one of them
\* with an element switched off and given a phase by an update.
C4_Witness ==
    /\ Len(arrays) = 2
    /\ current_array_index = 0
    /\ result = [op |-> "set_current_array", ret |-> "True", error |-> ""]
    /\ \E i \in 1..Len(arrays) : \E k \in 1..Len(arrays[i].elements) :
           /\ ~arrays[i].elements[k].is_active
           /\ arrays[i].elements[k].phase # 0

\* C5: for every scenario id of the mapping load_scenario returns a new
\* array, appends it as the last of the collection and makes it current;
\* for any other id it returns None and leaves the simulator as it was.
C5_LoadScenarioAppends ==
    \A scenario_id \in ScenarioIdInputs :
        LET left == load_scenario(Simulator, scenario_id)
        IN  IF scenario_id \in DOMAIN scenarios
            THEN /\ left.ret = "array"
                 /\ Len(left.sim.arrays) = Len(arrays) + 1
                 /\ SubSeq(left.sim.arrays, 1, Len(arrays)) = arrays
                 /\ left.sim.current_array_index = Len(arrays)
            ELSE /\ left.ret = "None"
                 /\ left.sim = Simulator

\* C6: the ids of the arrays in the collection are pairwise distinct.
C6_IdsPairwiseDistinct ==
    \A i, j \in 1..Len(arrays) : i # j => arrays[i].id # arrays[j].id

\* The update_array requests drawn, and the indices of the elements a
\* request names.
AllUpdateRequests == UpdateRequests \cup OverrideRequests \cup GeometryRequests
Respecified(data) ==
    IF "elements" \in DOMAIN data
    THEN {data.elements[j].index : j \in 1..Len(data.elements)}
    ELSE {}

\* C18: geometry changes force regeneration.  In every reachable state,
\* every update_array request that sets the element count, the spacing, the
\* geometry kind, the curvature, the array position or the rotation and
\* succeeds leaves as many elements as initialize_elements generates from
\* the new configuration, and every element the request does not name has
\* the generated position, amplitude 1 and is active.
C18_GeometryChangeRegenerates ==
    \A data \in AllUpdateRequests, uniform \in UniformDraws :
        LET left == handle_array_update(Simulator, data, uniform)
        IN  (left.ret = "success" /\ reinitialize_fields \cap DOMAIN data # {}) =>
                LET array == left.sim.arrays[IndexOfId(left.sim, Get(data, "array_id", 0))]
                    generated == initialize_elements(array).value.elements
                IN  /\ Len(array.elements) = array.num_elements
                    /\ Len(array.elements) = Len(generated)
                    /\ \A k \in 1..Len(generated) :
                           (k - 1) \notin Respecified(data) =>
                               /\ array.elements[k].index = k - 1
                               /\ array.elements[k].position_x = generated[k].position_x
                               /\ array.elements[k].position_y = generated[k].position_y
                               /\ array.elements[k].amplitude = 2
                               /\ array.elements[k].is_active

\* An update that set the spacing and named element 0 has succeeded on an
\* array: element 0 holds the amplitude given, element 1 is as generated
\* at the new spacing.
C18_Witness ==
    /\ result = [op |-> "handle_array_update", ret |-> "success", error |-> ""]
    /\ \E i \in 1..Len(arrays) :
           /\ arrays[i].element_spacing = 20
           /\ Len(arrays[i].elements) >= 2
           /\ arrays[i].elements[1].amplitude = 1
           /\ arrays[i].elements[2].amplitude = 2
           /\ arrays[i].elements[2].is_active
           /\ arrays[i].elements[2].position_x =
                  initialize_elements(arrays[i]).value.elements[2].position_x

\* The elements a request names hold, in the array `array`, the values the
\* request gives (the phase up to wrapping).
HoldsOverrides(array, data) ==
    \A j \in 1..Len(data.elements) :
        LET element_data == data.elements[j]
        IN  element_data.index < Len(array.elements) =>
                LET element == array.elements[element_data.index + 1]
                IN  /\ \A f \in DOMAIN element_data \cap
                                {"position_x", "position_y", "amplitude", "is_active"} :
                           element[f] = element_data[f]
                    /\ "phase" \in DOMAIN element_data =>
                           element.phase = NormalizePhase(element_data.phase)

\* C19: elements are individually mutable.  In every reachable state, an
\* update_array request with per-element overrides that succeeds leaves
\* each named element with the position, phase (up to wrapping), amplitude
\* and active flag given, whatever the phase profile, and the element still
\* holds them after any later successful update that sets no
\* geometry-affecting field and names no element.
C19_OverridesAreHeld ==
    \A data \in {d \in AllUpdateRequests : "elements" \in DOMAIN d},
       uniform \in UniformDraws :
        LET left == handle_array_update(Simulator, data, uniform)
            i == IndexOfId(left.sim, Get(data, "array_id", 0))
        IN  left.ret = "success" =>
                /\ HoldsOverrides(left.sim.arrays[i], data)
                /\ \A later \in {d \in AllUpdateRequests :
                                    /\ "elements" \notin DOMAIN d
                                    /\ reinitialize_fields \cap DOMAIN d = {}},
                      again \in UniformDraws :
                       LET after == handle_array_update(left.sim, later, again)
                       IN  after.ret = "success" =>
                               HoldsOverrides(after.sim.arrays[i], data)

C21_PhaseInHalfOpenInterval ==
    (call.op = "calculate_phases" /\ call.returned /\ call.ret.ok) =>
        \A k \in 1..Len(call.ret.value.elements) :
            /\ call.ret.value.elements[k].phase > -1440
            /\ call.ret.value.elements[k].phase <= 1440

\* C29: calculate_phases is idempotent for the linear, quadratic and custom
\* profiles: called again on the array it left, with no field and no
\* position changed, it leaves every element with the same phase, for every
\* steering angle.
C29_CalculatePhasesIdempotent ==
    (/\ call.op = "calculate_phases" /\ call.returned /\ call.ret.ok
     /\ call.ret.value.phase_profile # "RANDOM") =>
        calculate_phases(call.ret.value, call.args[2]) = call.ret

\* C22: removing the last remaining array is rejected by the caller layer.
\* In every state reached by add, remove and update requests the collection
\* is non-empty, and when it holds exactly one array every remove_array
\* request answers 'Cannot remove the last array' and leaves the stored
\* simulator (collection and current index) as it was.
C22_LastArrayIsKept ==
    /\ Len(arrays) >= 1
    /\ Len(arrays) = 1 =>
           \A array_id \in ArrayIdInputs :
               handle_remove_array(Simulator, array_id)
                   = Left(Simulator, "", "Cannot remove the last array")

\* A remove_array request for the id of the only array has been rejected.
C22_Witness ==
    /\ result = [op |-> "handle_remove_array", ret |-> "",
                 error |-> "Cannot remove the last array"]
    /\ Len(arrays) = 1
    /\ arrays[1].id \in ArrayIdInputs

\* The closed sets of the specification.
SpecGeometries == {"linear", "curved", "circular", "rectangular"}
SpecProfiles == {"linear", "quadratic", "random"}

\* C23: enum-like fields are validated against the closed sets.  from_dict
\* returns an array when the geometry string is one of linear, curved,
\* circular, rectangular and the phase-profile string one of linear,
\* quadratic, random, and otherwise fails with the enum's ValueError and
\* returns no array; and an update_array request on the array returned
\* succeeds for strings inside the sets and otherwise fails with the same
\* error and leaves the stored simulator as it was.
C23_EnumsValidatedAgainstClosedSets ==
    (call.op = "from_dict" /\ call.returned) =>
        LET data == call.args[1]
            inside(g, p) == g \in SpecGeometries /\ p \in SpecProfiles
            sim == [BeamformingSimulator EXCEPT !.arrays = <<call.ret.value>>]
        IN  /\ inside(data.geometry, data.phase_profile) => call.ret.ok
            /\ ~inside(data.geometry, data.phase_profile) =>
                   ~call.ret.ok /\ call.ret.error = "ValueError"
            /\ call.ret.ok =>
                   \A g \in GeometryStrings, p \in ProfileStrings, uniform \in UniformDraws :
                       LET left == handle_array_update(sim,
                                       [array_id |-> call.ret.value.id,
                                        geometry |-> g, phase_profile |-> p], uniform)
                       IN  IF inside(g, p)
                           THEN left.ret = "success"
                           ELSE left.error = "ValueError" /\ left.sim = sim

\* C24: the degenerate case is defended.  For an array with no active
\* element (every element inactive, or no element at all)
\* calculate_beam_pattern returns the all-zero pattern and
\* calculate_beam_metrics returns finite metrics with a maximum intensity of
\* 0: no exception, no nan, no infinity.
C24_NoActiveElementIsDefended ==
    (call.returned /\ call.op \in {"calculate_beam_pattern", "calculate_beam_metrics"}
     /\ ActiveElements(call.args[1]) = <<>>) =>
        /\ call.ret.ok
        /\ call.op = "calculate_beam_pattern" =>
               \A idx \in 1..Len(call.ret.value) : call.ret.value[idx] = Finite(0)
        /\ call.op = "calculate_beam_metrics" =>
               /\ \A f \in DOMAIN call.ret.value : call.ret.value[f].kind = "finite"
               /\ call.ret.value.max_intensity = Finite(0)

----------------------------------------------------------------------------
(* Properties of the current-array index, checked under IndexSpec *)

\* C26: the current-index invariant.  In every state reached by
\* create_array, remove_array, set_current_array and load_scenario the index
\* is 0 when the collection is empty and a position of the collection
\* otherwise, so get_current_array never raises.
C26_CurrentIndexValid ==
    /\ IF Len(arrays) = 0
       THEN current_array_index = 0
       ELSE current_array_index \in 0..(Len(arrays) - 1)
    /\ get_current_array(Simulator).ok

\* The last array of several was current and has been removed.
C26_Witness ==
    /\ result.op = "remove_array" /\ result.ret = "True"
    /\ Len(arrays) = 2
    /\ current_array_index = 1
    /\ arrays[1].id = 1

\* C27: remove_array preserves the current array.  A step that removes an
\* array other than the current one, in particular one positioned before
\* it, leaves get_current_array returning the array it returned before.
C27_RemovePreservesCurrent ==
    [][ (/\ result'.op = "remove_array" /\ result'.ret = "True"
         /\ \E i \in 1..Len(arrays) :
                /\ i # current_array_index + 1
                /\ arrays' = Pop(arrays, i))
        => get_current_array([arrays |-> arrays', scenarios |-> scenarios',
                              current_array_index |-> current_array_index'])
               = get_current_array(Simulator)
      ]_vars

----------------------------------------------------------------------------
(* Properties of configuration import, checked under SimSpec *)

\* C28: a successful import yields a well-formed simulator.  Whenever
\* import_configuration has returned True, the collection is empty or
\* current_array_index is one of its positions, and get_current_array
\* returns without raising: an index out of range was rejected or clamped.
C28_ImportLeavesValidIndex ==
    (result.op = "import_configuration" /\ result.ret = "True") =>
        /\ Len(arrays) = 0 \/ current_array_index \in 0..(Len(arrays) - 1)
        /\ get_current_array(Simulator).ok

----------------------------------------------------------------------------
(* Properties of element positions, checked under PositionSpec *)

\* C30: element positions never go stale.  After every update_array request
\* that succeeded, every element of every array has the position
\* initialize_elements generates from the array's current fields, the
\* frequency among them (under PositionSpec no request overrides the
\* position of an element).
C30_PositionsNeverStale ==
    (result.op = "handle_array_update" /\ result.ret = "success") =>
        \A i \in 1..Len(arrays) :
            LET generated == initialize_elements(arrays[i])
            IN  generated.ok =>
                    /\ Len(arrays[i].elements) = Len(generated.value.elements)
                    /\ \A k \in 1..Len(generated.value.elements) :
                           /\ arrays[i].elements[k].position_x =
                                  generated.value.elements[k].position_x
                           /\ arrays[i].elements[k].position_y =
                                  generated.value.elements[k].position_y

====
